---------------------------- MODULE Spec2Model ----------------------------
(***************************************************************************)
(* A model of crawldocs: the crawl manifest (manifest.go) and the crawler  *)
(* with its asynchronous write pipeline (the enhanced main program).       *)
(*                                                                         *)
(* Two specifications share the module:                                    *)
(*   Spec       the Manifest Store driven directly through its methods,    *)
(*              with Save broken into its file-system steps, process       *)
(*              crashes and restarts;                                      *)
(*   CrawlSpec  one run of the crawler: concurrent page callbacks, the     *)
(*              bounded write queue, the write workers, Start's completion *)
(*              path and the signal handler.                               *)
(***************************************************************************)
EXTENDS Integers, Sequences, FiniteSets, TLC

(***************************************************************************)
(* Bounds of the model.                                                    *)
(***************************************************************************)
NumPaths == 2
NumQueries == 2
MaxAdds == 2
MaxQueue == 1
MaxTime == 2
MaxFileSize == 2
MaxProcTime == 1
MaxPagesBound == 1
MaxParallelism == 2
MaxFetched == 2
NumContents == 1

(***************************************************************************)
(* Values.  A URL is a (path, query) pair; slugify reads only the path.    *)
(***************************************************************************)
URLs == (1..NumPaths) \X (1..NumQueries)
NoURL == <<0, 0>>
StoreURLs == {u \in URLs : u[2] = 1}

NoHash == <<>>
NoFile == <<>>
NoMsg == [kind |-> "", code |-> 0, url |-> NoURL]
MinimalMsg == [kind |-> "minimal content", code |-> 0, url |-> NoURL]
StatusMsg(code) == [kind |-> "status", code |-> code, url |-> NoURL]
DuplicateMsg(u) == [kind |-> "duplicate of", code |-> 0, url |-> u]

VARIABLES
    manifest,   \* the in-memory CrawlManifest of the running process
    now,        \* the wall clock
    saver,      \* who holds the manifest mutex inside Save, and at which step
    disk,       \* crawl-manifest.json and crawl-manifest.json.tmp
    cfg,        \* maxPages, parallelism and rate limit of the Crawler
    cb,         \* per URL: the page callback's position and locals
    cache,      \* contentCache: content hash -> URL
    bloom,      \* urlBloom: the URLs added
    pageCount,  \* Crawler.pageCount
    bytesWritten, \* Crawler.bytesWritten
    writeQueue, \* the buffered channel of write tasks, and whether it is closed
    workers,    \* per write worker: position and current task
    wg,         \* writeWg's counter
    files,      \* the page files on disk: file name -> URL whose content it holds
    mainpc,     \* position of main / Start
    sigpc,      \* position of the signal-handler goroutine
    hist        \* history: the command line, the manifest found on disk, the
                \* tasks submitted, writes failed, hashes recorded, the session
                \* attributes at the first Complete, the Save calls made, the
                \* text given to the cleaner and the text it returned, the
                \* manifest states between complete AddPage calls

storeVars == <<manifest, now, saver, disk>>
crawlVars == <<cfg, cb, cache, bloom, pageCount, bytesWritten, writeQueue,
               workers, wg, files, mainpc, sigpc, hist>>
vars == <<manifest, now, saver, disk, cfg, cb, cache, bloom,
          pageCount, bytesWritten, writeQueue, workers, wg, files, mainpc,
          sigpc, hist>>

(***************************************************************************)
(* manifest.go                                                             *)
(***************************************************************************)
ManifestVersion == "1.1.0"
defaultTimeout == 30

Ratio(n, d) == [num |-> n, den |-> d]
ZeroFloat == Ratio(0, 1)

Get(f, k) == IF k \in DOMAIN f THEN f[k] ELSE 0
Incr(f, k) == [x \in DOMAIN f \cup {k} |-> IF x = k THEN Get(f, k) + 1 ELSE f[x]]
EmptyMap == [x \in {} |-> 0]

CrawlConfig(maxPages, parallelism, rateLimit) ==
    [MaxPages |-> maxPages, Parallelism |-> parallelism, Verbose |-> FALSE,
     UserAgent |-> "CrawlDocs/2.0", RateLimit |-> rateLimit,
     Timeout |-> defaultTimeout]

NewManifest(baseURL, config, t) ==
    [Version |-> ManifestVersion,
     Metadata |-> [SessionID |-> t, StartTime |-> t, EndTime |-> 0,
                   Status |-> "running", BaseURL |-> baseURL],
     Pages |-> [u \in {} |-> 0],
     Queue |-> <<>>,
     Statistics |-> [TotalPages |-> 0, SuccessfulPages |-> 0,
                     FailedPages |-> 0, SkippedPages |-> 0,
                     DuplicatePages |-> 0, TotalBytes |-> 0,
                     AveragePageSize |-> 0, CrawlDuration |-> 0,
                     PagesPerSecond |-> ZeroFloat,
                     BytesPerSecond |-> ZeroFloat,
                     ErrorTypes |-> EmptyMap, StatusCodes |-> EmptyMap,
                     ContentTypes |-> EmptyMap,
                     ProcessingTimes |-> [Min |-> 0, Max |-> 0,
                                          Average |-> ZeroFloat, Total |-> 0]],
     Config |-> config]

PageInfo(url, status, hash, size, name, code, ctype, ptime, msg) ==
    [URL |-> url, ContentHash |-> hash, FileSize |-> size, FileName |-> name,
     ResponseCode |-> code, ContentType |-> ctype, ProcessingTime |-> ptime,
     Status |-> status, ErrorMessage |-> msg]

\* AddPage with the Pages assignment and the TotalPages increment only.
AddPageRecord(m, info) ==
    [m EXCEPT !.Pages = [u \in DOMAIN m.Pages \cup {info.URL} |->
                            IF u = info.URL THEN info ELSE m.Pages[u]],
              !.Statistics.TotalPages = @ + 1]

AddPageCompleted(m, info) ==
    LET s == m.Statistics
        pt == s.ProcessingTimes
        succ == s.SuccessfulPages + 1
        min == IF pt.Min = 0 \/ info.ProcessingTime < pt.Min
               THEN info.ProcessingTime ELSE pt.Min
        max == IF info.ProcessingTime > pt.Max
               THEN info.ProcessingTime ELSE pt.Max
        total == pt.Total + info.ProcessingTime
    IN  [m EXCEPT !.Statistics.SuccessfulPages = succ,
                  !.Statistics.TotalBytes = @ + info.FileSize,
                  !.Statistics.StatusCodes = Incr(@, info.ResponseCode),
                  !.Statistics.ContentTypes = Incr(@, info.ContentType),
                  !.Statistics.ProcessingTimes =
                      [Min |-> min, Max |-> max,
                       Average |-> Ratio(total, succ), Total |-> total]]

AddPageFailed(m, info) ==
    [m EXCEPT !.Statistics.FailedPages = @ + 1,
              !.Statistics.ErrorTypes =
                  IF info.ErrorMessage # NoMsg THEN Incr(@, info.ErrorMessage)
                  ELSE @]

AddPageSkipped_NotCounted(m, info) == m

AddPageSkipped(m, info) ==
    [m EXCEPT !.Statistics.SkippedPages = @ + 1]

AddPage(m, info) ==
    LET m1 == AddPageRecord(m, info)
    IN  IF info.Status = "completed" THEN AddPageCompleted(m1, info)
        ELSE IF info.Status = "failed" THEN AddPageFailed(m1, info)
        ELSE IF info.Status = "skipped" THEN AddPageSkipped(m1, info)
        ELSE m1

QueueItem(url, parentURL, depth, priority, t) ==
    [URL |-> url, ParentURL |-> parentURL, Depth |-> depth,
     Priority |-> priority, AddedAt |-> t]

AddToQueue(m, url, parentURL, depth, priority, t) ==
    [m EXCEPT !.Queue = Append(@, QueueItem(url, parentURL, depth, priority, t))]

RemoveFromQueue(m, url) ==
    [m EXCEPT !.Queue = SelectSeq(@, LAMBDA item : item.URL # url)]

IsVisited(m, url) == url \in DOMAIN m.Pages

\* The pages GetDuplicatePage may return (map iteration order is unspecified);
\* the empty set stands for nil.
GetDuplicatePage(m, contentHash) ==
    {u \in DOMAIN m.Pages : m.Pages[u].ContentHash = contentHash
                            /\ m.Pages[u].Status = "completed"}

UpdateStatistics(m, t) ==
    LET s == m.Statistics
        duration == t - m.Metadata.StartTime
    IN  [m EXCEPT !.Statistics.AveragePageSize =
                      IF s.SuccessfulPages > 0
                      THEN s.TotalBytes \div s.SuccessfulPages ELSE @,
                  !.Statistics.CrawlDuration = duration,
                  !.Statistics.PagesPerSecond =
                      IF duration > 0 THEN Ratio(s.TotalPages, duration) ELSE @,
                  !.Statistics.BytesPerSecond =
                      IF duration > 0 THEN Ratio(s.TotalBytes, duration) ELSE @]

Complete_CountsSaved(m, t) ==
    UpdateStatistics([m EXCEPT !.Metadata.EndTime = t,
                               !.Metadata.Status = "completed",
                               !.Statistics.TotalPages = m.Statistics.SuccessfulPages], t)

Complete(m, t) ==
    UpdateStatistics([m EXCEPT !.Metadata.EndTime = t,
                               !.Metadata.Status = "completed"], t)

GetProgress(m) ==
    LET completed == m.Statistics.TotalPages
        total == IF m.Config.MaxPages = 0 THEN completed + Len(m.Queue)
                 ELSE m.Config.MaxPages
    IN  [completed |-> completed, total |-> total,
         percentage |-> IF total > 0 THEN Ratio(completed * 100, total)
                        ELSE ZeroFloat]

(***************************************************************************)
(* encoding/json as Save and LoadManifest use it.  A document is the JSON  *)
(* object: its keys are the struct tags, a key tagged omitempty is absent  *)
(* when the string is empty, times are RFC 3339 text and the integer keys  *)
(* of StatusCodes are decimal text.                                        *)
(***************************************************************************)
Times == 0..(MaxTime + 1)
HTTPCodes == {0, 200, 301, 404}

EncodeTime(t) == ToString(t)
DecodeTime(s) == CHOOSE t \in Times : ToString(t) = s

EncodeIntKey(n) == ToString(n)
DecodeIntKey(s) == CHOOSE n \in HTTPCodes : ToString(n) = s

EncodeIntMap(f) ==
    [k \in {EncodeIntKey(n) : n \in DOMAIN f} |-> f[DecodeIntKey(k)]]
DecodeIntMap(o) ==
    [n \in {DecodeIntKey(k) : k \in DOMAIN o} |-> o[EncodeIntKey(n)]]

PageKeys_NoContentHash(p) ==
    {"url", "file_size", "file_name", "response_code", "content_type",
     "processing_time_ms", "status"}
        \cup (IF p.ErrorMessage # NoMsg THEN {"error_message"} ELSE {})

PageKeys(p) ==
    {"url", "content_hash", "file_size", "file_name", "response_code",
     "content_type", "processing_time_ms", "status"}
        \cup (IF p.ErrorMessage # NoMsg THEN {"error_message"} ELSE {})

EncodePage(p) ==
    [k \in PageKeys(p) |->
        CASE k = "url" -> p.URL
          [] k = "content_hash" -> p.ContentHash
          [] k = "file_size" -> p.FileSize
          [] k = "file_name" -> p.FileName
          [] k = "response_code" -> p.ResponseCode
          [] k = "content_type" -> p.ContentType
          [] k = "processing_time_ms" -> p.ProcessingTime
          [] k = "status" -> p.Status
          [] k = "error_message" -> p.ErrorMessage]

\* A key that is absent leaves the field at its zero value.
Field(o, k, zero) == IF k \in DOMAIN o THEN o[k] ELSE zero

DecodePage(o) ==
    [URL |-> Field(o, "url", NoURL),
     ContentHash |-> Field(o, "content_hash", NoHash),
     FileSize |-> Field(o, "file_size", 0),
     FileName |-> Field(o, "file_name", NoFile),
     ResponseCode |-> Field(o, "response_code", 0),
     ContentType |-> Field(o, "content_type", ""),
     ProcessingTime |-> Field(o, "processing_time_ms", 0),
     Status |-> Field(o, "status", ""),
     ErrorMessage |-> Field(o, "error_message", NoMsg)]

EncodeQueueItem(q) ==
    [url |-> q.URL, parent_url |-> q.ParentURL, depth |-> q.Depth,
     priority |-> q.Priority, added_at |-> EncodeTime(q.AddedAt)]

DecodeQueueItem(o) ==
    [URL |-> o.url, ParentURL |-> o.parent_url, Depth |-> o.depth,
     Priority |-> o.priority, AddedAt |-> DecodeTime(o.added_at)]

EncodeMetadata(md) ==
    [session_id |-> md.SessionID, start_time |-> EncodeTime(md.StartTime),
     end_time |-> EncodeTime(md.EndTime), status |-> md.Status,
     base_url |-> md.BaseURL]

DecodeMetadata(o) ==
    [SessionID |-> o.session_id, StartTime |-> DecodeTime(o.start_time),
     EndTime |-> DecodeTime(o.end_time), Status |-> o.status,
     BaseURL |-> o.base_url]

EncodeStatistics(s) ==
    [total_pages |-> s.TotalPages, successful_pages |-> s.SuccessfulPages,
     failed_pages |-> s.FailedPages, skipped_pages |-> s.SkippedPages,
     duplicate_pages |-> s.DuplicatePages, total_bytes |-> s.TotalBytes,
     average_page_size |-> s.AveragePageSize,
     crawl_duration |-> s.CrawlDuration,
     pages_per_second |-> s.PagesPerSecond,
     bytes_per_second |-> s.BytesPerSecond,
     error_types |-> s.ErrorTypes,
     status_codes |-> EncodeIntMap(s.StatusCodes),
     content_types |-> s.ContentTypes,
     processing_times |-> [min_ms |-> s.ProcessingTimes.Min,
                           max_ms |-> s.ProcessingTimes.Max,
                           average_ms |-> s.ProcessingTimes.Average,
                           total_ms |-> s.ProcessingTimes.Total]]

DecodeStatistics(o) ==
    [TotalPages |-> o.total_pages, SuccessfulPages |-> o.successful_pages,
     FailedPages |-> o.failed_pages, SkippedPages |-> o.skipped_pages,
     DuplicatePages |-> o.duplicate_pages, TotalBytes |-> o.total_bytes,
     AveragePageSize |-> o.average_page_size,
     CrawlDuration |-> o.crawl_duration,
     PagesPerSecond |-> o.pages_per_second,
     BytesPerSecond |-> o.bytes_per_second,
     ErrorTypes |-> o.error_types,
     StatusCodes |-> DecodeIntMap(o.status_codes),
     ContentTypes |-> o.content_types,
     ProcessingTimes |-> [Min |-> o.processing_times.min_ms,
                          Max |-> o.processing_times.max_ms,
                          Average |-> o.processing_times.average_ms,
                          Total |-> o.processing_times.total_ms]]

EncodeConfig(c) ==
    [max_pages |-> c.MaxPages, parallelism |-> c.Parallelism,
     verbose |-> c.Verbose, user_agent |-> c.UserAgent,
     rate_limit |-> c.RateLimit, timeout_seconds |-> c.Timeout]

DecodeConfig(o) ==
    [MaxPages |-> o.max_pages, Parallelism |-> o.parallelism,
     Verbose |-> o.verbose, UserAgent |-> o.user_agent,
     RateLimit |-> o.rate_limit, Timeout |-> o.timeout_seconds]

\* encoder.Encode(m)
Encode(m) ==
    [version |-> m.Version,
     metadata |-> EncodeMetadata(m.Metadata),
     pages |-> [u \in DOMAIN m.Pages |-> EncodePage(m.Pages[u])],
     queue |-> [i \in 1..Len(m.Queue) |-> EncodeQueueItem(m.Queue[i])],
     statistics |-> EncodeStatistics(m.Statistics),
     config |-> EncodeConfig(m.Config)]

\* decoder.Decode(&manifest)
Decode(doc) ==
    [Version |-> doc.version,
     Metadata |-> DecodeMetadata(doc.metadata),
     Pages |-> [u \in DOMAIN doc.pages |-> DecodePage(doc.pages[u])],
     Queue |-> [i \in 1..Len(doc.queue) |-> DecodeQueueItem(doc.queue[i])],
     Statistics |-> DecodeStatistics(doc.statistics),
     Config |-> DecodeConfig(doc.config)]

(***************************************************************************)
(* Files.  A file is absent, partial (created or truncated: no complete    *)
(* JSON document) or full.  A full file carries, as history, the manifest  *)
(* that was in memory when Save serialized it.                             *)
(***************************************************************************)
Absent == [kind |-> "absent"]
Partial == [kind |-> "partial"]
Full(m) == [kind |-> "full", doc |-> Encode(m), mem |-> m]
FullTemp == [kind |-> "full"]

NoLock == [holder |-> "none", pc |-> "idle", written |-> Absent]

SaveCreate_InPlace(d) == [d EXCEPT !.canonical = Partial]

\* Save, up to os.Create: lock, UpdateStatistics, create the temp file.
SaveCreate(d) == [d EXCEPT !.tmp = Partial]

\* Save: encoder.Encode(m) into the temp file.  The content of the temp file
\* is kept with the Save that wrote it: nothing else ever reads that file.
SaveEncode(d) == [d EXCEPT !.tmp = FullTemp]

\* Save: os.Rename(tempPath, manifestPath).
SaveRename(d, written) == [canonical |-> written, tmp |-> Absent]

\* Files no Save of this program leaves: one that cannot be opened, one that
\* holds the empty JSON object, and one that holds a complete document
\* followed by bytes that are not JSON.
Unreadable == [kind |-> "unreadable"]
Hollow == [kind |-> "hollow"]
Trailing(m) == [kind |-> "trailing", doc |-> Encode(m), mem |-> m]

\* var manifest CrawlManifest: every field at its zero value.
ZeroManifest ==
    [NewManifest(NoURL,
                 [CrawlConfig(0, 0, 0) EXCEPT !.UserAgent = "", !.Timeout = 0], 0)
        EXCEPT !.Version = "", !.Metadata.Status = ""]

\* os.Open fails on an absent or unreadable file.  decoder.Decode reads the
\* first JSON value of the file and nothing after it, leaves the fields the
\* value does not name at their zero values, and fails on an incomplete value.
LoadManifest(d) ==
    IF d.canonical.kind \in {"absent", "unreadable"} THEN [err |-> "open"]
    ELSE IF d.canonical.kind = "partial" THEN [err |-> "decode"]
    ELSE IF d.canonical.kind = "hollow"
    THEN [err |-> "none", manifest |-> ZeroManifest, mem |-> ZeroManifest]
    ELSE [err |-> "none", manifest |-> Decode(d.canonical.doc),
          mem |-> d.canonical.mem]

\* NewCrawler: a fresh manifest, replaced by the saved one when that loads
\* and its status is running.
CreateOrLoadManifest(d, baseURL, config, t) ==
    LET r == LoadManifest(d)
    IN  IF r.err = "none" /\ r.manifest.Metadata.Status = "running"
        THEN r.manifest
        ELSE NewManifest(baseURL, config, t)

(***************************************************************************)
(* The crawler's state while no crawl runs (the Manifest Store alone).     *)
(***************************************************************************)
defaultParallelism == 10
defaultRateLimit == 10
BaseURL == <<1, 1>>

\* A flag that was not given on the command line.
Unset == -1
NoArgs == [resume |-> FALSE, maxPages |-> Unset, workers |-> Unset, rateLimit |-> Unset]

\* No session attributes: the value of the history of Complete before the first
\* Complete.
NoMetadata ==
    [SessionID |-> 0, StartTime |-> 0, EndTime |-> 0, Status |-> "none",
     BaseURL |-> NoURL]

NoHistory ==
    [submitted |-> {}, atSignal |-> {}, failed |-> {}, processed |-> {},
     recorded |-> {}, exit |-> "none", tasks |-> {},
     args |-> NoArgs, saved |-> Absent,
     completed |-> NoMetadata, saves |-> 0, failedSaves |-> 0,
     text |-> <<>>, cleaned |-> <<>>, whole |-> {}, links |-> {}]

NoCrawl ==
    /\ cfg = [maxPages |-> 0, parallelism |-> 0, rateLimit |-> 0]
    /\ cb = [u \in {} |-> 0]
    /\ cache = [h \in {} |-> 0]
    /\ bloom = {}
    /\ pageCount = 0
    /\ bytesWritten = 0
    /\ writeQueue = [tasks |-> <<>>, closed |-> FALSE]
    /\ workers = [w \in {} |-> 0]
    /\ wg = 0
    /\ files = [f \in {} |-> 0]
    /\ mainpc = "none"
    /\ sigpc = "none"
    /\ hist = NoHistory

(***************************************************************************)
(* Spec: the Manifest Store.                                               *)
(***************************************************************************)
StoreInputs ==
    {PageInfo(u, "completed", <<1>>, sz, <<u[1], 0>>, 200, "text/html", pt, NoMsg) :
        u \in StoreURLs, sz \in 1..MaxFileSize, pt \in 0..MaxProcTime}
    \cup {PageInfo(u, "failed", NoHash, 0, NoFile, 404, "", 0, msg) :
        u \in StoreURLs, msg \in {NoMsg, StatusMsg(404)}}
    \cup {PageInfo(u, "skipped", NoHash, 0, NoFile, 200, "", 0, MinimalMsg) :
        u \in StoreURLs}

Init ==
    /\ now = 1
    /\ \E mp \in 0..MaxPagesBound :
          manifest = NewManifest(BaseURL,
                        CrawlConfig(mp, defaultParallelism, defaultRateLimit), 1)
    /\ saver = NoLock
    /\ disk = [canonical |-> Absent, tmp |-> Absent]
    /\ NoCrawl

\* A mutex that never makes a caller wait.
Unlocked_NoMutex == TRUE

Unlocked == saver.holder = "none"

StoreAddPage ==
    /\ Unlocked
    /\ manifest.Statistics.TotalPages < MaxAdds
    /\ \E info \in StoreInputs : manifest' = AddPage(manifest, info)
    /\ UNCHANGED <<now, saver, disk, crawlVars>>

StoreAddToQueue ==
    /\ Unlocked
    /\ Len(manifest.Queue) < MaxQueue
    /\ \E u \in StoreURLs : manifest' = AddToQueue(manifest, u, NoURL, 0, 0, now)
    /\ UNCHANGED <<now, saver, disk, crawlVars>>

StoreRemoveFromQueue ==
    /\ Unlocked
    /\ \E u \in StoreURLs : manifest' = RemoveFromQueue(manifest, u)
    /\ UNCHANGED <<now, saver, disk, crawlVars>>

StoreComplete ==
    /\ Unlocked
    /\ manifest' = Complete(manifest, now)
    /\ UNCHANGED <<now, saver, disk, crawlVars>>

\* Save: Lock, UpdateStatistics, os.Create(tempPath).
SaveBegin(who) ==
    /\ Unlocked
    /\ manifest' = UpdateStatistics(manifest, now)
    /\ disk' = SaveCreate(disk)
    /\ saver' = [holder |-> who, pc |-> "created", written |-> Absent]

\* Save: os.Create fails; Save returns the error.
SaveCreateFails(who) ==
    /\ Unlocked
    /\ manifest' = UpdateStatistics(manifest, now)
    /\ UNCHANGED <<disk, saver>>

\* Save: encoder.Encode writes the document.
SaveWrite(who) ==
    /\ saver.holder = who /\ saver.pc = "created"
    /\ disk' = SaveEncode(disk)
    /\ saver' = [holder |-> who, pc |-> "encoded", written |-> Full(manifest)]
    /\ UNCHANGED manifest

\* Save: encoder.Encode fails; the temp file keeps what was written.
SaveEncodeFails(who) ==
    /\ saver.holder = who /\ saver.pc = "created"
    /\ saver' = NoLock
    /\ UNCHANGED <<manifest, disk>>

\* Save: os.Rename succeeds; Save returns nil.
SaveCommit(who) ==
    /\ saver.holder = who /\ saver.pc = "encoded"
    /\ disk' = SaveRename(disk, saver.written)
    /\ saver' = NoLock
    /\ UNCHANGED manifest

\* Save: os.Rename fails; Save returns the error.
SaveRenameFails(who) ==
    /\ saver.holder = who /\ saver.pc = "encoded"
    /\ saver' = NoLock
    /\ UNCHANGED <<manifest, disk>>

StoreSave ==
    /\ \/ SaveBegin("store")
       \/ SaveCreateFails("store")
       \/ SaveWrite("store")
       \/ SaveEncodeFails("store")
       \/ SaveCommit("store")
       \/ SaveRenameFails("store")
    /\ UNCHANGED <<now, crawlVars>>

\* The process is killed at any point, also inside Save, and a new one is
\* started on the same output directory while the saved session is running:
\* NewCrawler resumes it.
CrashRestart ==
    /\ LoadManifest(disk).err = "none"
    /\ LoadManifest(disk).manifest.Metadata.Status = "running"
    /\ \E mp \in 0..MaxPagesBound :
          manifest' = CreateOrLoadManifest(disk, BaseURL,
                         CrawlConfig(mp, defaultParallelism, defaultRateLimit), now)
    /\ saver' = NoLock
    /\ UNCHANGED <<now, disk, crawlVars>>

Next ==
    \/ StoreAddPage
    \/ StoreAddToQueue
    \/ StoreRemoveFromQueue
    \/ StoreComplete
    \/ StoreSave
    \/ CrashRestart

Spec == Init /\ [][Next]_vars

(***************************************************************************)
(* The crawler (the enhanced main program).                                *)
(***************************************************************************)
minContentLength == 100
duplicateMinLength == 500

\* The cleaned content of a response: one of NumContents texts, and its length
\* in characters, on either side of each of the two thresholds.
Lengths ==
    {minContentLength - 1, minContentLength,
     duplicateMinLength - 1, duplicateMinLength}
Responses ==
    [status : {200, 404}, len : Lengths, content : 1..NumContents]
NoResponse == [status |-> 0, len |-> 0, content |-> 0]

\* validateContent: IsValid
IsValid(resp) == resp.len >= minContentLength

\* savePage: len(validation.CleanedContent) >= 500
IsSubstantial_Always(resp) == TRUE

IsSubstantial(resp) == resp.len >= duplicateMinLength

\* savePage: contentForHash and CalculateContentHash.  Short content is hashed
\* with the URL path and the title (the title is taken to belong to the
\* content), longer content alone; SHA-256 is taken to be free of collisions.
ContentHash(u, resp) ==
    IF IsSubstantial(resp) THEN <<0, resp.content>>
    ELSE <<u[1], resp.content>>

\* len(finalContent), in units of the model (the bytes of the header and of
\* multi-byte characters are not counted).
ContentSize(resp) == IF resp.len >= duplicateMinLength THEN 2 ELSE 1

\* slugify: the slug is a function of the path alone.
slugify(u) == u[1]

\* savePage: the first of slug.md, slug-1.md, slug-2.md, ... that os.Stat
\* does not find.
FreeFileName(fs, slug) ==
    LET k == CHOOSE i \in 0..Cardinality(DOMAIN fs) + 1 :
               /\ <<slug, i>> \notin DOMAIN fs
               /\ \A j \in 0..(i - 1) : <<slug, j>> \in DOMAIN fs
    IN  <<slug, k>>

NumWorkers(parallelism) == parallelism \div 2
\* A write queue with room for one task more than 2 x parallelism.
QueueCapacity_OneMore(parallelism) == parallelism * 2 + 1

QueueCapacity(parallelism) == parallelism * 2

NoTask ==
    [filePath |-> NoFile, size |-> 0,
     pageInfo |-> PageInfo(NoURL, "", NoHash, 0, NoFile, 0, "", 0, NoMsg)]
IdleCallback ==
    [pc |-> "idle", resp |-> NoResponse, outcome |-> "none", dup |-> 0,
     task |-> NoTask, seen |-> "none", prior |-> FALSE]

Running == mainpc \notin {"none", "exited"}
Fetched == Cardinality({u \in URLs : cb[u].pc # "idle"})

CrawlInit ==
    /\ now = 1
    /\ \E mp \in 0..MaxPagesBound, par \in 1..MaxParallelism :
          /\ cfg = [maxPages |-> mp, parallelism |-> par,
                    rateLimit |-> defaultRateLimit]
          /\ manifest = NewManifest(BaseURL,
                            CrawlConfig(mp, par, defaultRateLimit), 1)
          /\ workers = [w \in 1..NumWorkers(par) |->
                            [pc |-> "spawned", task |-> NoTask]]
    /\ saver = NoLock
    /\ disk = [canonical |-> Absent, tmp |-> Absent]
    /\ cb = [u \in URLs |-> IdleCallback]
    /\ cache = [h \in {} |-> NoURL]
    /\ bloom = {}
    /\ pageCount = 0
    /\ bytesWritten = 0
    /\ writeQueue = [tasks |-> <<>>, closed |-> FALSE]
    /\ wg = 0
    /\ files = [f \in {} |-> NoURL]
    /\ mainpc = "crawl"
    /\ sigpc = "armed"
    /\ hist = NoHistory

Finish(c, outcome) ==
    [c EXCEPT !.pc = "done", !.outcome = outcome, !.task = NoTask, !.dup = 0]

\* urlBloom.Test: true for every URL added, and possibly for one never added.
BloomTest(u) == IF u \in bloom THEN {TRUE} ELSE {TRUE, FALSE}

\* The OnHTML("html") callback up to the call of savePage, and savePage up to
\* the content hash: the visited check, the page limit, the status code and
\* the minimum content length.
\* The engine delivers at most `limit` pages, with responses from `resps`.
OnHTMLOf(u, limit, resps) ==
    /\ Running /\ mainpc = "crawl"
    /\ cb[u].pc = "idle"
    /\ Fetched < limit
    /\ \E resp \in resps, test \in BloomTest(u) :
          /\ (resp.status # 200 => resp.len = minContentLength - 1 /\ resp.content = 1)
          /\ IF test /\ Unlocked /\ IsVisited(manifest, u)
             THEN /\ cb' = [cb EXCEPT ![u] = Finish([@ EXCEPT !.resp = resp], "visited")]
                  /\ UNCHANGED <<manifest, bloom>>
             ELSE /\ test => Unlocked
                  /\ bloom' = bloom \cup {u}
                  /\ IF cfg.maxPages > 0 /\ pageCount >= cfg.maxPages
                     THEN /\ cb' = [cb EXCEPT ![u] = Finish([@ EXCEPT !.resp = resp], "limit")]
                          /\ UNCHANGED manifest
                     ELSE IF resp.status # 200
                     THEN /\ Unlocked
                          /\ manifest' = AddPage(manifest,
                                PageInfo(u, IF resp.status >= 400 THEN "failed" ELSE "skipped",
                                         NoHash, 0, NoFile, resp.status, "", 0,
                                         StatusMsg(resp.status)))
                          /\ cb' = [cb EXCEPT ![u] = Finish([@ EXCEPT !.resp = resp], "status")]
                     ELSE IF ~IsValid(resp)
                     THEN /\ Unlocked
                          /\ manifest' = AddPage(manifest,
                                PageInfo(u, "skipped", NoHash, 0, NoFile, resp.status,
                                         "", 0, MinimalMsg))
                          /\ cb' = [cb EXCEPT ![u] = Finish([@ EXCEPT !.resp = resp], "minimal")]
                     ELSE /\ cb' = [cb EXCEPT ![u] = [@ EXCEPT !.pc = "get", !.resp = resp]]
                          /\ UNCHANGED manifest
    /\ UNCHANGED <<now, saver, disk, cfg, cache, pageCount, bytesWritten,
                   writeQueue, workers, wg, files, mainpc, sigpc, hist>>

OnHTML(u) == OnHTMLOf(u, MaxFetched, Responses)

\* A cache whose Get answers with any entry it holds, whatever the key.
CacheGet_AnyEntry(c, h) == {c[k] : k \in DOMAIN c}

\* contentCache.Get(contentHash): the URL stored under that hash, or no value
\* (the empty set) with the entry-not-found error.
CacheGet(c, h) == IF h \in DOMAIN c THEN {c[h]} ELSE {}

\* savePage: contentCache.Get misses, or hits on content too short to count
\* as a duplicate (GetDuplicatePage is then called for the log line only).
CacheGetNovel(u) ==
    LET h == ContentHash(u, cb[u].resp)
    IN  /\ Running
        /\ cb[u].pc = "get"
        /\ CacheGet(cache, h) # {} => (~IsSubstantial(cb[u].resp) /\ Unlocked)
        /\ cb' = [cb EXCEPT ![u] =
                    [@ EXCEPT !.pc = "set",
                              !.seen = IF CacheGet(cache, h) # {} THEN "hit" ELSE "miss",
                              !.prior = h \in hist.recorded]]
        /\ UNCHANGED <<manifest, now, saver, disk, cfg, cache, bloom, pageCount,
                       bytesWritten, writeQueue, workers, wg, files, mainpc,
                       sigpc, hist>>

\* savePage: contentCache.Get hits on substantial content: GetDuplicatePage,
\* then AddPage of a skipped record that names the original.
CacheGetDuplicate(u) ==
    LET h == ContentHash(u, cb[u].resp)
        originals == GetDuplicatePage(manifest, h)
    IN  /\ Running
        /\ cb[u].pc = "get"
        /\ CacheGet(cache, h) # {}
        /\ IsSubstantial(cb[u].resp)
        /\ Unlocked
        /\ \E orig \in (IF originals = {} THEN CacheGet(cache, h) ELSE originals) :
              manifest' = AddPage(manifest,
                    PageInfo(u, "skipped", h, 0, NoFile, 0, "", 0,
                             DuplicateMsg(orig)))
        /\ cb' = [cb EXCEPT ![u] =
                    [@ EXCEPT !.pc = "dupread", !.seen = "hit",
                              !.prior = h \in hist.recorded]]
        /\ UNCHANGED <<now, saver, disk, cfg, cache, bloom, pageCount,
                       bytesWritten, writeQueue, workers, wg, files, mainpc,
                       sigpc, hist>>

\* savePage: c.manifest.Statistics.DuplicatePages++ without the mutex: the read.
DuplicateRead(u) ==
    /\ Running
    /\ cb[u].pc = "dupread"
    /\ cb' = [cb EXCEPT ![u] =
                [@ EXCEPT !.pc = "dupwrite", !.dup = manifest.Statistics.DuplicatePages]]
    /\ UNCHANGED <<manifest, now, saver, disk, cfg, cache, bloom, pageCount,
                   bytesWritten, writeQueue, workers, wg, files, mainpc, sigpc,
                   hist>>

\* savePage: c.manifest.Statistics.DuplicatePages++ without the mutex: the write.
DuplicateWrite(u) ==
    /\ Running
    /\ cb[u].pc = "dupwrite"
    /\ manifest' = [manifest EXCEPT !.Statistics.DuplicatePages = cb[u].dup + 1]
    /\ cb' = [cb EXCEPT ![u] = Finish(@, "duplicate")]
    /\ UNCHANGED <<now, saver, disk, cfg, cache, bloom, pageCount, bytesWritten,
                   writeQueue, workers, wg, files, mainpc, sigpc, hist>>

\* savePage: contentCache.Set, the pageCount increment, the file name and the
\* PageInfo of the write task.
CacheSet(u) ==
    LET resp == cb[u].resp
        h == ContentHash(u, resp)
        name == FreeFileName(files, slugify(u))
    IN  /\ Running
        /\ cb[u].pc = "set"
        /\ cache' = [x \in DOMAIN cache \cup {h} |-> IF x = h THEN u ELSE cache[x]]
        /\ pageCount' = pageCount + 1
        /\ cb' = [cb EXCEPT ![u] =
                    [@ EXCEPT !.pc = "submit",
                              !.task = [filePath |-> name,
                                        size |-> ContentSize(resp),
                                        pageInfo |-> PageInfo(u, "completed", h,
                                            ContentSize(resp), name, resp.status,
                                            "text/html", 0, NoMsg)]]]
        /\ hist' = [hist EXCEPT !.recorded = @ \cup {h}]
        /\ UNCHANGED <<manifest, now, saver, disk, cfg, bloom, bytesWritten,
                       writeQueue, workers, wg, files, mainpc, sigpc>>

\* savePage: c.writeQueue <- writeTask{...}; blocks while the queue is full.
Submit(u) ==
    /\ Running
    /\ cb[u].pc = "submit"
    /\ ~writeQueue.closed
    /\ Len(writeQueue.tasks) < QueueCapacity(cfg.parallelism)
    /\ writeQueue' = [writeQueue EXCEPT !.tasks = Append(@, cb[u].task)]
    /\ cb' = [cb EXCEPT ![u] = Finish(@, "submitted")]
    /\ hist' = [hist EXCEPT !.submitted = @ \cup {u},
                            !.tasks = @ \cup {[url |-> u,
                                               filePath |-> cb[u].task.filePath,
                                               size |-> cb[u].task.size]}]
    /\ UNCHANGED <<manifest, now, saver, disk, cfg, cache, bloom, pageCount,
                   bytesWritten, workers, wg, files, mainpc, sigpc>>

\* bigcache: an entry older than LifeWindow is removed.
CacheExpire ==
    /\ Running
    /\ \E h \in DOMAIN cache :
          cache' = [x \in DOMAIN cache \ {h} |-> cache[x]]
    /\ UNCHANGED <<manifest, now, saver, disk, cfg, cb, bloom, pageCount,
                   bytesWritten, writeQueue, workers, wg, files, mainpc, sigpc,
                   hist>>

\* fileWriteWorker: c.writeWg.Add(1), run by the worker goroutine itself.
WorkerStart(w) ==
    /\ Running
    /\ workers[w].pc = "spawned"
    /\ wg' = wg + 1
    /\ workers' = [workers EXCEPT ![w].pc = "recv"]
    /\ UNCHANGED <<manifest, now, saver, disk, cfg, cb, cache, bloom, pageCount,
                   bytesWritten, writeQueue, files, mainpc, sigpc, hist>>

\* fileWriteWorker: for task := range c.writeQueue, a task is received.
WorkerReceive(w) ==
    /\ Running
    /\ workers[w].pc = "recv"
    /\ writeQueue.tasks # <<>>
    /\ workers' = [workers EXCEPT ![w] = [pc |-> "write", task |-> Head(writeQueue.tasks)]]
    /\ writeQueue' = [writeQueue EXCEPT !.tasks = Tail(@)]
    /\ UNCHANGED <<manifest, now, saver, disk, cfg, cb, cache, bloom, pageCount,
                   bytesWritten, wg, files, mainpc, sigpc, hist>>

\* fileWriteWorker: the queue is closed and empty: the loop ends, writeWg.Done().
WorkerExit(w) ==
    /\ Running
    /\ workers[w].pc = "recv"
    /\ writeQueue.tasks = <<>>
    /\ writeQueue.closed
    /\ wg' = wg - 1
    /\ workers' = [workers EXCEPT ![w].pc = "exit"]
    /\ UNCHANGED <<manifest, now, saver, disk, cfg, cb, cache, bloom, pageCount,
                   bytesWritten, writeQueue, files, mainpc, sigpc, hist>>

\* fileWriteWorker: os.WriteFile succeeds.
WorkerWrite(w) ==
    /\ Running
    /\ workers[w].pc = "write"
    /\ files' = [f \in DOMAIN files \cup {workers[w].task.filePath} |->
                    IF f = workers[w].task.filePath
                    THEN workers[w].task.pageInfo.URL ELSE files[f]]
    /\ workers' = [workers EXCEPT ![w].pc = "add"]
    /\ UNCHANGED <<manifest, now, saver, disk, cfg, cb, cache, bloom, pageCount,
                   bytesWritten, writeQueue, wg, mainpc, sigpc, hist>>

\* fileWriteWorker without the continue after a failed write: the task goes on
\* to AddPage although no file was written.
WorkerWriteFails_Records(w) ==
    /\ Running
    /\ workers[w].pc = "write"
    /\ workers' = [workers EXCEPT ![w].pc = "add"]
    /\ hist' = [hist EXCEPT !.failed = @ \cup {workers[w].task.pageInfo.URL}]
    /\ UNCHANGED <<manifest, now, saver, disk, cfg, cb, cache, bloom, pageCount,
                   bytesWritten, writeQueue, wg, files, mainpc, sigpc>>

\* fileWriteWorker with a return in place of the continue after a failed write.
WorkerWriteFails_Returns(w) ==
    /\ Running
    /\ workers[w].pc = "write"
    /\ workers' = [workers EXCEPT ![w] = [pc |-> "exit", task |-> NoTask]]
    /\ wg' = wg - 1
    /\ hist' = [hist EXCEPT !.failed = @ \cup {workers[w].task.pageInfo.URL}]
    /\ UNCHANGED <<manifest, now, saver, disk, cfg, cb, cache, bloom, pageCount,
                   bytesWritten, writeQueue, files, mainpc, sigpc>>

\* fileWriteWorker: os.WriteFile fails: the error is logged, continue.
WorkerWriteFails(w) ==
    /\ Running
    /\ workers[w].pc = "write"
    /\ workers' = [workers EXCEPT ![w] = [pc |-> "recv", task |-> NoTask]]
    /\ hist' = [hist EXCEPT !.failed = @ \cup {workers[w].task.pageInfo.URL}]
    /\ UNCHANGED <<manifest, now, saver, disk, cfg, cb, cache, bloom, pageCount,
                   bytesWritten, writeQueue, wg, files, mainpc, sigpc>>

\* fileWriteWorker: c.manifest.AddPage(task.pageInfo).
WorkerAddPage(w) ==
    /\ Running
    /\ workers[w].pc = "add"
    /\ Unlocked
    /\ manifest' = AddPage(manifest, workers[w].task.pageInfo)
    /\ workers' = [workers EXCEPT ![w].pc = "bytes"]
    /\ UNCHANGED <<now, saver, disk, cfg, cb, cache, bloom, pageCount,
                   bytesWritten, writeQueue, wg, files, mainpc, sigpc, hist>>

\* fileWriteWorker: atomic.AddInt64(&c.bytesWritten, len(task.content)).
WorkerCountBytes(w) ==
    /\ Running
    /\ workers[w].pc = "bytes"
    /\ bytesWritten' = bytesWritten + workers[w].task.size
    /\ workers' = [workers EXCEPT ![w] = [pc |-> "recv", task |-> NoTask]]
    /\ hist' = [hist EXCEPT !.processed = @ \cup {workers[w].task.pageInfo.URL}]
    /\ UNCHANGED <<manifest, now, saver, disk, cfg, cb, cache, bloom, pageCount,
                   writeQueue, wg, files, mainpc, sigpc>>

\* Start: c.collector.Wait() returns: no callback is running and the engine
\* has no further page.
CollectorWait ==
    /\ mainpc = "crawl"
    /\ \A u \in URLs : cb[u].pc \in {"idle", "done"}
    /\ mainpc' = "close"
    /\ UNCHANGED <<manifest, now, saver, disk, cfg, cb, cache, bloom, pageCount,
                   bytesWritten, writeQueue, workers, wg, files, sigpc, hist>>

\* Start: close(c.writeQueue).
CloseQueue ==
    /\ mainpc = "close"
    /\ writeQueue' = [writeQueue EXCEPT !.closed = TRUE]
    /\ mainpc' = "wait"
    /\ UNCHANGED <<manifest, now, saver, disk, cfg, cb, cache, bloom, pageCount,
                   bytesWritten, workers, wg, files, sigpc, hist>>

\* Start: c.writeWg.Wait() returns when the counter is zero.
WaitGroupWait ==
    /\ mainpc = "wait"
    /\ wg = 0
    /\ mainpc' = "complete"
    /\ UNCHANGED <<manifest, now, saver, disk, cfg, cb, cache, bloom, pageCount,
                   bytesWritten, writeQueue, workers, wg, files, sigpc, hist>>

\* Start: c.manifest.Complete().
StartComplete ==
    /\ mainpc = "complete"
    /\ Unlocked
    /\ manifest' = Complete(manifest, now)
    /\ mainpc' = "save"
    /\ UNCHANGED <<now, saver, disk, cfg, cb, cache, bloom, pageCount,
                   bytesWritten, writeQueue, workers, wg, files, sigpc, hist>>

\* Save as one step, for a caller whose Save nothing interleaves with: every
\* way the call can end.  (The mutex is held from UpdateStatistics to the
\* rename.)
SaveCall ==
    /\ Unlocked
    /\ manifest' = UpdateStatistics(manifest, now)
    /\ \/ disk' = SaveRename(SaveEncode(SaveCreate(disk)), Full(manifest'))
       \/ disk' = SaveEncode(SaveCreate(disk))
       \/ disk' = SaveCreate(disk)
       \/ disk' = disk
    /\ UNCHANGED saver

\* 1 when the Save that left the files d returned an error (the canonical file
\* is not the document of m), else 0.
SaveFailed(d, m) == IF d.canonical = Full(m) THEN 0 ELSE 1

\* Start: c.manifest.Save(c.outputDir); an error is logged.  Start and main
\* return and the process ends.
StartSave ==
    /\ mainpc = "save"
    /\ SaveCall
    /\ mainpc' = "exited"
    /\ hist' = [hist EXCEPT !.exit = "normal", !.saves = @ + 1,
                            !.failedSaves = @ + SaveFailed(disk', manifest')]
    /\ UNCHANGED <<now, cfg, cb, cache, bloom, pageCount, bytesWritten,
                   writeQueue, workers, wg, files, sigpc>>

\* main's signal goroutine: <-sigChan delivers SIGINT or SIGTERM, then
\* crawler.manifest.Save (an error is logged) and os.Exit(0).
Signal ==
    /\ Running
    /\ sigpc = "armed"
    /\ SaveCall
    /\ sigpc' = "exit"
    /\ mainpc' = "exited"
    /\ hist' = [hist EXCEPT !.exit = "signal", !.atSignal = hist.submitted,
                            !.saves = @ + 1,
                            !.failedSaves = @ + SaveFailed(disk', manifest')]
    /\ UNCHANGED <<now, cfg, cb, cache, bloom, pageCount, bytesWritten,
                   writeQueue, workers, wg, files>>

CrawlNext ==
    \/ \E u \in URLs : OnHTML(u)
    \/ \E u \in URLs : CacheGetNovel(u)
    \/ \E u \in URLs : CacheGetDuplicate(u)
    \/ \E u \in URLs : DuplicateRead(u)
    \/ \E u \in URLs : DuplicateWrite(u)
    \/ \E u \in URLs : CacheSet(u)
    \/ \E u \in URLs : Submit(u)
    \/ CacheExpire
    \/ \E w \in DOMAIN workers : WorkerStart(w)
    \/ \E w \in DOMAIN workers : WorkerReceive(w)
    \/ \E w \in DOMAIN workers : WorkerExit(w)
    \/ \E w \in DOMAIN workers : WorkerWrite(w)
    \/ \E w \in DOMAIN workers : WorkerWriteFails(w)
    \/ \E w \in DOMAIN workers : WorkerAddPage(w)
    \/ \E w \in DOMAIN workers : WorkerCountBytes(w)
    \/ CollectorWait
    \/ CloseQueue
    \/ WaitGroupWait
    \/ StartComplete
    \/ StartSave
    \/ Signal

CrawlSpec == CrawlInit /\ [][CrawlNext]_vars

(***************************************************************************)
(* DuplicateSpec: the page callbacks alone, for pages that all carry the   *)
(* same substantial content (the write workers and main are not scheduled  *)
(* meanwhile).                                                             *)
(***************************************************************************)
MaxSameFetched == 3

SameResponses == {[status |-> 200, len |-> duplicateMinLength, content |-> 1]}

OnHTMLSame(u) == OnHTMLOf(u, MaxSameFetched, SameResponses)

DuplicateInit ==
    /\ CrawlInit
    /\ cfg.parallelism = MaxParallelism
    /\ cfg.maxPages = 0

DuplicateNext ==
    \/ \E u \in URLs : OnHTMLSame(u)
    \/ \E u \in URLs : CacheGetNovel(u)
    \/ \E u \in URLs : CacheGetDuplicate(u)
    \/ \E u \in URLs : DuplicateRead(u)
    \/ \E u \in URLs : DuplicateWrite(u)
    \/ \E u \in URLs : CacheSet(u)
    \/ \E u \in URLs : Submit(u)

DuplicateSpec == DuplicateInit /\ [][DuplicateNext]_vars

(***************************************************************************)
(* ResumeSpec: main is started with --resume on an output directory left   *)
(* by an earlier session, then the crawl runs as in CrawlSpec.             *)
(***************************************************************************)
defaultMaxPages == 5000

\* flag.Int: the value given on the command line, or the default.
FlagInt(v, default) == IF v = Unset THEN default ELSE v

\* The earlier session: started at time 0 as --max-pages 0 --workers 2
\* --rate-limit 5; it saved one page, failed on one, skipped one as a
\* duplicate, and saved its manifest at time 1.
PriorRateLimit == 5
PriorResponse == [status |-> 200, len |-> duplicateMinLength, content |-> 1]
PriorRunning ==
    LET h  == ContentHash(BaseURL, PriorResponse)
        m0 == NewManifest(BaseURL, CrawlConfig(0, 2, PriorRateLimit), 0)
        m1 == AddPage(m0, PageInfo(BaseURL, "completed", h,
                            ContentSize(PriorResponse), <<slugify(BaseURL), 0>>,
                            200, "text/html", 1, NoMsg))
        m2 == AddPage(m1, PageInfo(<<2, 1>>, "failed", NoHash, 0, NoFile, 404,
                            "", 0, StatusMsg(404)))
        m3 == AddPage(m2, PageInfo(<<2, 2>>, "skipped", h, 0, NoFile, 0, "", 0,
                            DuplicateMsg(BaseURL)))
    IN  UpdateStatistics([m3 EXCEPT !.Statistics.DuplicatePages = 1], 1)
PriorCompleted == Complete(PriorRunning, 1)

\* What the output directory holds at the canonical path: nothing, a file
\* that is no JSON document, or the manifest of the earlier session.
SavedFiles == {Absent, Partial, Full(PriorRunning), Full(PriorCompleted)}

\* The page files the earlier session wrote.
PriorFiles(f) ==
    IF f.kind # "full" THEN [x \in {} |-> NoURL]
    ELSE LET done == {u \in DOMAIN f.mem.Pages : f.mem.Pages[u].Status = "completed"}
         IN  [x \in {f.mem.Pages[u].FileName : u \in done} |->
                 CHOOSE u \in done : f.mem.Pages[u].FileName = x]

\* The command lines: --resume --max-pages 1 --workers 2, no --rate-limit.
ResumeArgs ==
    [resume : {TRUE}, maxPages : {1}, workers : {MaxParallelism},
     rateLimit : {Unset}]

\* No manifest is in memory before NewCrawler.
NoManifest == NewManifest(NoURL, CrawlConfig(0, 0, 0), 0)

ResumeInit ==
    /\ now = 1
    /\ manifest = NoManifest
    /\ saver = NoLock
    /\ \E f \in SavedFiles, a \in ResumeArgs :
          /\ disk = [canonical |-> f, tmp |-> Absent]
          /\ files = PriorFiles(f)
          /\ hist = [NoHistory EXCEPT !.args = a, !.saved = f]
    /\ cfg = [maxPages |-> 0, parallelism |-> 0, rateLimit |-> 0]
    /\ cb = [u \in URLs |-> IdleCallback]
    /\ cache = [h \in {} |-> NoURL]
    /\ bloom = {}
    /\ pageCount = 0
    /\ bytesWritten = 0
    /\ writeQueue = [tasks |-> <<>>, closed |-> FALSE]
    /\ workers = [w \in {} |-> [pc |-> "spawned", task |-> NoTask]]
    /\ wg = 0
    /\ mainpc = "main"
    /\ sigpc = "none"

\* main, from flag.Parse to the start of the signal goroutine: the resume
\* branch (LoadManifest; log.Fatal on an error; the target URL and max-pages
\* taken from the manifest), then NewCrawler with the flags' values.
Main ==
    /\ mainpc = "main"
    /\ LET a == hist.args
           r == LoadManifest(disk)
           workersFlag == FlagInt(a.workers, defaultParallelism)
           rateFlag == FlagInt(a.rateLimit, defaultRateLimit)
           maxFlag == FlagInt(a.maxPages, defaultMaxPages)
       IN  IF a.resume /\ r.err # "none"
           THEN /\ mainpc' = "exited"
                /\ hist' = [hist EXCEPT !.exit = r.err]
                /\ UNCHANGED <<manifest, cfg, workers, writeQueue, sigpc>>
           ELSE LET targetURL == IF a.resume THEN r.manifest.Metadata.BaseURL
                                 ELSE BaseURL
                    maxPages == IF a.resume THEN r.manifest.Config.MaxPages
                                ELSE maxFlag
                    config == CrawlConfig(maxPages, workersFlag, rateFlag)
                IN  /\ manifest' = CreateOrLoadManifest(disk, targetURL, config, now)
                    /\ cfg' = [maxPages |-> maxPages, parallelism |-> workersFlag,
                               rateLimit |-> rateFlag]
                    /\ writeQueue' = [tasks |-> <<>>, closed |-> FALSE]
                    /\ workers' = [w \in 1..NumWorkers(workersFlag) |->
                                      [pc |-> "spawned", task |-> NoTask]]
                    /\ mainpc' = "crawl"
                    /\ sigpc' = "armed"
                    /\ UNCHANGED hist
    /\ UNCHANGED <<now, saver, disk, cb, cache, bloom, pageCount, bytesWritten,
                   wg, files>>

ResumeNext ==
    \/ Main
    \/ CrawlNext

ResumeSpec == ResumeInit /\ [][ResumeNext]_vars

(***************************************************************************)
(* Claims about the Manifest Store (checked under Spec).                   *)
(***************************************************************************)

\* C1: after any sequence of AddPage calls, also ones that repeat a URL,
\* Statistics.TotalPages equals the number of distinct URLs held in Pages.
C1_TotalPagesIsDistinctURLs ==
    manifest.Statistics.TotalPages = Cardinality(DOMAIN manifest.Pages)

\* The counters of a statistics object add up: successful + failed + skipped
\* pages equal the total.
CountsAddUp(total, successful, failed, skipped) ==
    successful + failed + skipped = total

\* C2: after any sequence of AddPage calls with a Status of completed, failed
\* or skipped, SuccessfulPages + FailedPages + SkippedPages = TotalPages, in
\* memory and in every manifest file Save has written.
C2_StatusCountsSumToTotal ==
    /\ CountsAddUp(manifest.Statistics.TotalPages,
                   manifest.Statistics.SuccessfulPages,
                   manifest.Statistics.FailedPages,
                   manifest.Statistics.SkippedPages)
    /\ \A f \in {saver.written, disk.canonical} :
          f.kind = "full" =>
              CountsAddUp(f.doc.statistics.total_pages,
                          f.doc.statistics.successful_pages,
                          f.doc.statistics.failed_pages,
                          f.doc.statistics.skipped_pages)

\* A saved manifest that counts one failed and one skipped page.
C2_Witness ==
    /\ disk.canonical.kind = "full"
    /\ disk.canonical.doc.statistics.total_pages = 2
    /\ disk.canonical.doc.statistics.failed_pages = 1
    /\ disk.canonical.doc.statistics.skipped_pages = 1

\* C3: at every point during and after a Save, also after a crash or a
\* failure between creating the temp file and the rename, the file named
\* crawl-manifest.json is absent or holds a complete manifest that a Save
\* serialized; partial content exists only under the .tmp name.
C3_CanonicalNeverPartial ==
    /\ disk.canonical.kind \in {"absent", "full"}
    /\ disk.canonical.kind = "full" => LoadManifest(disk).err = "none"

\* A Save has failed after creating the temp file, on top of an earlier
\* successful Save: the partial temp file lies beside the complete manifest.
C3_Witness ==
    /\ disk.canonical.kind = "full"
    /\ disk.tmp.kind = "partial"
    /\ saver.holder = "none"

Checked(u) ==
    /\ cb[u].pc = "done"
    /\ cb[u].outcome \in {"submitted", "duplicate"}

\* u was skipped as a duplicate, with an ErrorMessage that names v.
SkippedAsDuplicateOf(u, v) ==
    /\ cb[u].outcome = "duplicate"
    /\ IsVisited(manifest, u)
    /\ manifest.Pages[u].Status = "skipped"
    /\ manifest.Pages[u].ErrorMessage = DuplicateMsg(v)

\* C5: when two pages with different URLs (and no third) carry the same
\* cleaned content of at least 500 characters, then, whether their callbacks
\* ran one after the other or concurrently, exactly one of them is submitted
\* to the write queue as completed and the other is recorded as skipped with
\* an ErrorMessage naming the first page's URL.
C5_ExactlyOneOfTwoDuplicates ==
    \A u, v \in URLs :
        (/\ u # v
         /\ Checked(u) /\ Checked(v)
         /\ cb[u].resp.len >= duplicateMinLength
         /\ cb[v].resp.len >= duplicateMinLength
         /\ cb[u].resp.content = cb[v].resp.content
         /\ \A w \in URLs \ {u, v} : cb[w].resp.content # cb[u].resp.content)
        => \/ cb[u].outcome = "submitted" /\ SkippedAsDuplicateOf(v, u)
           \/ cb[v].outcome = "submitted" /\ SkippedAsDuplicateOf(u, v)

\* The write tasks that exist: queued, or held by a worker.
PendingTasks ==
    {writeQueue.tasks[i] : i \in 1..Len(writeQueue.tasks)}
        \cup {workers[w].task : w \in {x \in DOMAIN workers : workers[x].task # NoTask}}

\* C6: a page whose cleaned content is valid (at least 100 characters) but
\* shorter than 500 characters is submitted for writing with a completed
\* record and is never recorded as skipped, also when another URL has the
\* same content and the same fingerprint; once a worker has written and
\* recorded it, its PageRecord has Status completed.
C6_ShortPagesNeverDuplicates ==
    /\ \A u \in URLs :
          (/\ cb[u].pc = "done"
           /\ cb[u].outcome \notin {"visited", "limit"}
           /\ cb[u].resp.status = 200
           /\ cb[u].resp.len >= minContentLength
           /\ cb[u].resp.len < duplicateMinLength)
          => /\ cb[u].outcome = "submitted"
             /\ u \in hist.submitted
             /\ IsVisited(manifest, u) => manifest.Pages[u].Status = "completed"
             /\ u \in hist.processed =>
                   /\ IsVisited(manifest, u)
                   /\ manifest.Pages[u].Status = "completed"
    /\ \A t \in PendingTasks : t.pageInfo.Status = "completed"

\* Two short pages with different URLs and the same fingerprint (the second
\* found the hash in the cache), both written and recorded as completed.
C6_Witness ==
    \E u, v \in URLs :
        /\ u # v
        /\ cb[u].resp.len \in minContentLength..(duplicateMinLength - 1)
        /\ cb[v].resp.len \in minContentLength..(duplicateMinLength - 1)
        /\ ContentHash(u, cb[u].resp) = ContentHash(v, cb[v].resp)
        /\ cb[v].seen = "hit"
        /\ {u, v} \subseteq hist.processed
        /\ manifest.Pages[u].Status = "completed"
        /\ manifest.Pages[v].Status = "completed"

\* C7: once savePage has recorded a content hash in the fingerprint cache,
\* every later duplicate check of that hash in the session reports it as
\* seen, however much time has passed and whatever else was recorded since.
C7_RecordedHashStaysSeen ==
    \A u \in URLs : cb[u].prior => cb[u].seen = "hit"

\* C8: when a worker's file write for a task fails, the task is not retried
\* and its URL is still recorded in the manifest with Status failed.
C8_FailedWriteIsRecorded ==
    \A u \in hist.failed :
        /\ IsVisited(manifest, u)
        /\ manifest.Pages[u].Status = "failed"

\* C9: when close(writeQueue) followed by writeWg.Wait() has returned, every
\* submitted task has been fully processed (its write attempted, its AddPage
\* applied), for every parallelism of at least 1 and every interleaving of
\* worker start-up with the call to Wait.
C9_WaitDrainsTheQueue ==
    (mainpc \in {"complete", "save"} \/ hist.exit = "normal")
        => hist.submitted \subseteq (hist.processed \cup hist.failed)

\* C10: when an interrupt signal arrives while write tasks are queued or being
\* written, the pipeline is drained before the final Save: every task
\* submitted before the signal has its PageRecord in the manifest that is on
\* disk when the process exits.
C10_SignalDrainsBeforeSave ==
    (hist.exit = "signal" /\ disk.canonical.kind = "full")
        => hist.atSignal \subseteq DOMAIN disk.canonical.doc.pages

\* A page callback was still running when the process ended.
CallbackInFlight == \E u \in URLs : cb[u].pc \notin {"idle", "done"}

\* C11: when an interrupt signal ends a crawl whose work was not exhausted, the
\* manifest saved at exit has Metadata.Status interrupted; it has Status
\* completed only when the work was exhausted naturally.
C11_InterruptedStatusAtExit ==
    (hist.exit = "signal" /\ disk.canonical.kind = "full")
        => LET saved == LoadManifest(disk).manifest
           IN  /\ CallbackInFlight => saved.Metadata.Status = "interrupted"
               /\ saved.Metadata.Status = "completed" => ~CallbackInFlight

(***************************************************************************)
(* Claims about resuming (checked under ResumeSpec).                       *)
(***************************************************************************)

\* What LoadManifest found when main started.
Loaded == LoadManifest([canonical |-> hist.saved, tmp |-> Absent])

\* The session was resumed from a saved manifest: main was started with
\* --resume, the manifest loaded, its status was running, NewCrawler ran.
Resumed ==
    /\ hist.args.resume
    /\ mainpc # "main"
    /\ Loaded.err = "none"
    /\ Loaded.manifest.Metadata.Status = "running"

\* C12: after a session is resumed from a saved manifest, no URL that has a
\* PageRecord in the loaded manifest is processed again: no write task is
\* submitted for it and no further AddPage is made for it.
C12_ResumedPagesNotProcessedAgain ==
    Resumed =>
        \A u \in DOMAIN Loaded.manifest.Pages :
            /\ u \notin hist.submitted
            /\ cb[u].pc \in {"idle", "done"} => cb[u].outcome \in {"none", "visited", "limit"}
            /\ manifest.Pages[u] = Loaded.manifest.Pages[u]

\* The content hashes of the completed PageRecords of the loaded manifest.
LoadedHashes ==
    {Loaded.manifest.Pages[u].ContentHash :
        u \in {x \in DOMAIN Loaded.manifest.Pages :
                  Loaded.manifest.Pages[x].Status = "completed"}}

\* C13: after a session is resumed, the fingerprint cache contains the
\* ContentHash of every completed PageRecord of the loaded manifest, so a newly
\* fetched page of at least 500 characters whose hash equals one of them is
\* recorded as a skipped duplicate and is not submitted for writing.
C13_ResumeRehydratesCache ==
    Resumed =>
        \A u \in URLs \ DOMAIN Loaded.manifest.Pages :
            (/\ Checked(u)
             /\ cb[u].resp.len >= duplicateMinLength
             /\ ContentHash(u, cb[u].resp) \in LoadedHashes)
            => /\ cb[u].outcome = "duplicate"
               /\ u \notin hist.submitted
               /\ IsVisited(manifest, u)
               /\ manifest.Pages[u].Status = "skipped"

\* Why a resume cannot go ahead, if it cannot.
ResumeObstacle ==
    IF Loaded.err = "open" THEN "missing"
    ELSE IF Loaded.err = "decode" THEN "corrupt"
    ELSE IF Loaded.manifest.Metadata.Status = "completed" THEN "completed"
    ELSE "none"

\* C14: resume fails with an error, without starting a crawl and without
\* replacing the saved manifest, when no manifest exists, when the manifest is
\* corrupt and when the saved session's status is completed; the error kind
\* tells the three cases apart.
C14_ResumeFailsDistinctly ==
    (hist.args.resume /\ mainpc # "main" /\ ResumeObstacle # "none")
        => /\ mainpc = "exited"
           /\ hist.exit = CASE ResumeObstacle = "missing" -> "open"
                            [] ResumeObstacle = "corrupt" -> "decode"
                            [] OTHER -> "completed"
           /\ \A u \in URLs : cb[u].pc = "idle"
           /\ disk.canonical = hist.saved

\* The value a resumed crawl should run with: the override, or the snapshot's.
Restored(flag, snapshot) == IF flag = Unset THEN snapshot ELSE flag

\* C15: a session resumed without explicit overrides runs with max-pages,
\* parallelism and rate-limit equal to the loaded manifest's Config snapshot;
\* a value explicitly overridden on resume is used instead.
C15_ResumeRestoresConfig ==
    Resumed =>
        /\ cfg.maxPages = Restored(hist.args.maxPages, Loaded.manifest.Config.MaxPages)
        /\ cfg.parallelism = Restored(hist.args.workers, Loaded.manifest.Config.Parallelism)
        /\ cfg.rateLimit = Restored(hist.args.rateLimit, Loaded.manifest.Config.RateLimit)

\* The figures of a Statistics object that processing pages changes.
PageFigures(s) ==
    [TotalPages |-> s.TotalPages, SuccessfulPages |-> s.SuccessfulPages,
     FailedPages |-> s.FailedPages, SkippedPages |-> s.SkippedPages,
     DuplicatePages |-> s.DuplicatePages, TotalBytes |-> s.TotalBytes,
     StatusCodes |-> s.StatusCodes, ContentTypes |-> s.ContentTypes,
     ErrorTypes |-> s.ErrorTypes, ProcessingTimes |-> s.ProcessingTimes]

\* A resumed session ended with Complete and a Save that replaced the file,
\* and no page callback ran in it.
CompletedWithoutPages ==
    /\ Resumed
    /\ hist.exit = "normal"
    /\ \A u \in URLs : cb[u].pc = "idle"
    /\ disk.canonical.kind = "full"
    /\ disk.canonical # hist.saved

\* C16: loading a saved manifest with status running, then Complete and Save
\* with no AddPage in between, persists a manifest whose page counters,
\* TotalBytes, per-code, per-type and per-reason counts and processing-time
\* figures equal those of the manifest that was loaded.
C16_ResumeKeepsStatistics ==
    CompletedWithoutPages =>
        PageFigures(LoadManifest(disk).manifest.Statistics)
            = PageFigures(Loaded.manifest.Statistics)

C16_Witness ==
    /\ CompletedWithoutPages
    /\ LoadManifest(disk).manifest.Metadata.Status = "completed"
    /\ Loaded.manifest.Statistics.TotalPages = 3
    /\ Loaded.manifest.Statistics.DuplicatePages = 1

(***************************************************************************)
(* Claims about file names and the persistence pipeline (CrawlSpec).       *)
(***************************************************************************)

\* C17: within one session no two write tasks target the same file path: two
\* different URLs with the same slug get different file names by numeric
\* suffixing, under every interleaving of page callbacks and also while the
\* first page's file is still waiting in the write queue.
C17_FilePathsAreDistinct ==
    \A s, t \in hist.tasks : s.url # t.url => s.filePath # t.filePath

RECURSIVE SumOfSizes(_)
\* The sum of the sizes of a set of submitted tasks.
SumOfSizes(S) ==
    IF S = {} THEN 0
    ELSE LET t == CHOOSE x \in S : TRUE
         IN  t.size + SumOfSizes(S \ {t})

\* C18: when N pages with pairwise different URLs and file names are submitted
\* to the pipeline concurrently and every write succeeds, then after shutdown
\* there are N distinct files, Statistics.SuccessfulPages is N and
\* Statistics.TotalBytes is the sum of the N records' FileSize.
C18_AllSubmittedPagesPersisted ==
    (/\ hist.exit = "normal"
     /\ hist.failed = {}
     /\ \A s, t \in hist.tasks : s.url # t.url => s.filePath # t.filePath)
    => /\ Cardinality(DOMAIN files) = Cardinality(hist.tasks)
       /\ manifest.Statistics.SuccessfulPages = Cardinality(hist.tasks)
       /\ manifest.Statistics.TotalBytes = SumOfSizes(hist.tasks)

\* C19: every change to a Statistics field, DuplicatePages included, is made
\* under the manifest's exclusive lock; so once k pages have been recorded as
\* duplicates by concurrently running callbacks, DuplicatePages equals k.
C19_DuplicatePagesHasNoLostUpdate ==
    (\A u \in URLs : cb[u].pc \in {"idle", "done"})
        => manifest.Statistics.DuplicatePages
               = Cardinality({u \in URLs : cb[u].outcome = "duplicate"})

(***************************************************************************)
(* Claims about persisted statistics (checked under Spec).                 *)
(***************************************************************************)

\* The URLs of the PageRecords of m with the given status.
WithStatus(m, status) == {u \in DOMAIN m.Pages : m.Pages[u].Status = status}

RECURSIVE SumOfFileSize(_, _)
\* The sum of FileSize over the PageRecords of the URLs in S.
SumOfFileSize(pages, S) ==
    IF S = {} THEN 0
    ELSE LET u == CHOOSE x \in S : TRUE
         IN  pages[u].FileSize + SumOfFileSize(pages, S \ {u})

\* C20: in every manifest persisted by Save, SuccessfulPages, FailedPages and
\* SkippedPages equal the number of PageRecords with Status completed, failed
\* and skipped, and TotalBytes equals the sum of FileSize over the completed
\* records.
C20_StatisticsMatchRecount ==
    disk.canonical.kind = "full" =>
        LET m == LoadManifest(disk).manifest
            s == m.Statistics
        IN  /\ s.SuccessfulPages = Cardinality(WithStatus(m, "completed"))
            /\ s.FailedPages = Cardinality(WithStatus(m, "failed"))
            /\ s.SkippedPages = Cardinality(WithStatus(m, "skipped"))
            /\ s.TotalBytes = SumOfFileSize(m.Pages, WithStatus(m, "completed"))

\* C21: GetProgress returns completed equal to the number of recorded pages
\* (the TotalPages counter) and total equal to the greater of the configured
\* MaxPages and completed plus the length of the pending Queue.
C21_ProgressTotalIsTheGreater ==
    LET p == GetProgress(manifest)
        pending == p.completed + Len(manifest.Queue)
    IN  /\ p.completed = manifest.Statistics.TotalPages
        /\ p.total = IF manifest.Config.MaxPages > pending
                     THEN manifest.Config.MaxPages ELSE pending

(***************************************************************************)
(* The Manifest Store over time: the store's operations with a clock that  *)
(* advances between them, and the session attributes the first Complete    *)
(* left kept as history.                                                   *)
(***************************************************************************)
\* time.Now() moves on between two operations.
Tick ==
    /\ Unlocked
    /\ now < MaxTime
    /\ now' = now + 1
    /\ UNCHANGED <<manifest, saver, disk, crawlVars>>

TimedComplete ==
    /\ Unlocked
    /\ manifest' = Complete(manifest, now)
    /\ hist' = [hist EXCEPT !.completed = IF @ = NoMetadata
                                          THEN manifest'.Metadata ELSE @]
    /\ UNCHANGED <<now, saver, disk, cfg, cb, cache, bloom, pageCount,
                   bytesWritten, writeQueue, workers, wg, files, mainpc, sigpc>>

MaxTimedAdds == 1

TimedAddPage ==
    /\ Unlocked
    /\ manifest.Statistics.TotalPages < MaxTimedAdds
    /\ \E info \in StoreInputs : manifest' = AddPage(manifest, info)
    /\ UNCHANGED <<now, saver, disk, crawlVars>>

\* Save, from its Lock to its return, in each way it can end.
TimedSave ==
    /\ SaveCall
    /\ UNCHANGED <<now, crawlVars>>

TimedNext ==
    \/ Tick
    \/ TimedAddPage
    \/ StoreAddToQueue
    \/ StoreRemoveFromQueue
    \/ TimedComplete
    \/ TimedSave

TimedSpec == Init /\ [][TimedNext]_vars

\* C22: once Complete has set Status to completed and fixed EndTime, no
\* sequence of AddPage, AddToQueue, RemoveFromQueue, Complete and Save changes
\* the Status, the EndTime or any other Session attribute.
C22_CompletedSessionIsFrozen ==
    hist.completed # NoMetadata => manifest.Metadata = hist.completed

(***************************************************************************)
(* The two callbacks that report a fetched page: OnHTML (through savePage) *)
(* and OnError.                                                            *)
(***************************************************************************)
\* err.Error() of the error the engine hands to OnError for a response with an
\* HTTP error status: the status text ("Not Found"), without the number.
StatusTextMsg == [kind |-> "status text", code |-> 0, url |-> NoURL]

\* The OnError callback: the error is not "already visited"; AddPage of a
\* failed record with the error's text and the response's status code.
\* The engine reports at most `limit` pages, with responses from `resps` that
\* carry an HTTP error status.
OnErrorOf(u, limit, resps) ==
    /\ Running /\ mainpc = "crawl"
    /\ cb[u].pc = "idle"
    /\ Fetched < limit
    /\ Unlocked
    /\ \E resp \in resps :
          /\ resp.status >= 400
          /\ resp.len = minContentLength - 1 /\ resp.content = 1
          /\ manifest' = AddPage(manifest,
                PageInfo(u, "failed", NoHash, 0, NoFile, resp.status, "", 0,
                         StatusTextMsg))
          /\ cb' = [cb EXCEPT ![u] = Finish([@ EXCEPT !.resp = resp], "error")]
    /\ UNCHANGED <<now, saver, disk, cfg, cache, bloom, pageCount, bytesWritten,
                   writeQueue, workers, wg, files, mainpc, sigpc, hist>>

OnError(u) == OnErrorOf(u, MaxFetched, Responses)

ErrorNext ==
    \/ \E u \in URLs : OnHTML(u)
    \/ \E u \in URLs : OnError(u)

ErrorSpec == CrawlInit /\ [][ErrorNext]_vars

\* The pages with HTTP status 404 that a callback has reported.
Reported404 ==
    {u \in URLs : cb[u].resp.status = 404 /\ cb[u].outcome \in {"status", "error"}}

\* C23: a page whose HTTP status is 404, whichever callback reports it, gets a
\* PageRecord with Status failed and an ErrorMessage containing "404",
\* increments FailedPages and does not increment SuccessfulPages.
C23_NotFoundIsFailedWithCode ==
    /\ \A u \in Reported404 :
          /\ u \in DOMAIN manifest.Pages
          /\ manifest.Pages[u].Status = "failed"
          /\ manifest.Pages[u].ErrorMessage.kind = "status"
          /\ manifest.Pages[u].ErrorMessage.code = 404
    /\ manifest.Statistics.FailedPages = Cardinality(Reported404)
    /\ manifest.Statistics.SuccessfulPages = 0

\* C24: no URL is both in the pending Queue and in Pages: recording a
\* PageRecord for a URL removes that URL's QueueRecord.
C24_QueueAndPagesAreDisjoint ==
    \A i \in 1..Len(manifest.Queue) :
        manifest.Queue[i].URL \notin DOMAIN manifest.Pages

\* C25: when max-pages is greater than 0, the number of pages accepted for
\* saving (the pageCount counter, equal to the number of write tasks
\* submitted or about to be) never exceeds max-pages, under every
\* interleaving of concurrent page callbacks.
C25_PageCountWithinMaxPages ==
    cfg.maxPages > 0 =>
        /\ pageCount <= cfg.maxPages
        /\ Cardinality(hist.submitted) <= cfg.maxPages

\* C26: a write worker never stops because one task failed: the step of a
\* failed file write leaves the worker at the receive of its loop, where it
\* takes the next task whenever the queue holds one, and a worker returns only
\* from that receive, with the write queue closed and empty.
C26_WorkerSurvivesFailedWrite ==
    [][\A w \in DOMAIN workers :
          /\ (workers[w].pc = "write" /\ hist'.failed # hist.failed
                /\ workers'[w] # workers[w])
                => workers'[w].pc = "recv"
          /\ (workers[w].pc = "recv" /\ writeQueue.tasks # <<>> /\ Running)
                => ENABLED WorkerReceive(w)
          /\ (workers[w].pc # "exit" /\ workers'[w].pc = "exit")
                => /\ workers[w].pc = "recv"
                   /\ writeQueue.closed
                   /\ writeQueue.tasks = <<>>]_vars

\* The only worker had a write fail and now holds the next task.
C26_Witness ==
    /\ DOMAIN workers = {1}
    /\ hist.failed # {}
    /\ hist.processed = {}
    /\ workers[1].pc = "write"
    /\ workers[1].task.pageInfo.URL \notin hist.failed

(***************************************************************************)
(* QueueSpec: the producers and consumers of the write queue: page         *)
(* callbacks with valid short content and the write workers, while Start   *)
(* waits for the collector.                                                *)
(***************************************************************************)
MaxQueueFetched == 3

QueueResponses == {[status |-> 200, len |-> minContentLength, content |-> 1]}

OnHTMLQueue(u) == OnHTMLOf(u, MaxQueueFetched, QueueResponses)

QueueInit ==
    /\ CrawlInit
    /\ cfg.maxPages = 0

QueueNext ==
    \/ \E u \in URLs : OnHTMLQueue(u)
    \/ \E u \in URLs : CacheGetNovel(u)
    \/ \E u \in URLs : CacheSet(u)
    \/ \E u \in URLs : Submit(u)
    \/ \E w \in DOMAIN workers : WorkerStart(w)
    \/ \E w \in DOMAIN workers : WorkerReceive(w)
    \/ \E w \in DOMAIN workers : WorkerWrite(w)
    \/ \E w \in DOMAIN workers : WorkerWriteFails(w)
    \/ \E w \in DOMAIN workers : WorkerAddPage(w)
    \/ \E w \in DOMAIN workers : WorkerCountBytes(w)

QueueSpec == QueueInit /\ [][QueueNext]_vars

\* C27: the number of write tasks waiting in the queue never exceeds
\* 2 x parallelism; a producer at its submit can complete it exactly when the
\* queue is not full: on a full queue it waits until a task is removed, on a
\* non-full queue it returns without waiting.
C27_QueueWithinCapacity ==
    /\ Len(writeQueue.tasks) <= 2 * cfg.parallelism
    /\ \A u \in URLs :
          cb[u].pc = "submit" =>
              (ENABLED Submit(u) <=> Len(writeQueue.tasks) < 2 * cfg.parallelism)

\* The queue is full and a producer waits at its submit.
C27_Witness ==
    /\ Len(writeQueue.tasks) = 2 * cfg.parallelism
    /\ \E u \in URLs : cb[u].pc = "submit"

(***************************************************************************)
(* LoadSpec: LoadManifest called on an output directory whose manifest     *)
(* file is in any state a file can be in.                                  *)
(***************************************************************************)
\* The manifests of a store that recorded at most one page.
StoredManifests ==
    LET fresh == {NewManifest(BaseURL,
                     CrawlConfig(mp, defaultParallelism, defaultRateLimit), 1) :
                        mp \in 0..MaxPagesBound}
        one == {AddPage(m, info) : m \in fresh, info \in StoreInputs}
    IN  {UpdateStatistics(m, 1) : m \in fresh \cup one}

LoadFiles ==
    {Absent, Unreadable, Partial, Hollow}
    \cup {Full(m) : m \in StoredManifests}
    \cup {Trailing(m) : m \in StoredManifests}

LoadInit ==
    /\ now = 1
    /\ manifest = NoManifest
    /\ saver = NoLock
    /\ \E f \in LoadFiles :
          /\ disk = [canonical |-> f, tmp |-> Absent]
          /\ hist = [NoHistory EXCEPT !.saved = f]
    /\ cfg = [maxPages |-> 0, parallelism |-> 0, rateLimit |-> 0]
    /\ cb = [u \in {} |-> 0]
    /\ cache = [h \in {} |-> 0]
    /\ bloom = {}
    /\ pageCount = 0
    /\ bytesWritten = 0
    /\ writeQueue = [tasks |-> <<>>, closed |-> FALSE]
    /\ workers = [w \in {} |-> 0]
    /\ wg = 0
    /\ files = [f \in {} |-> 0]
    /\ mainpc = "load"
    /\ sigpc = "none"

\* manifest, err := LoadManifest(outputDir)
LoadCall ==
    /\ mainpc = "load"
    /\ LET r == LoadManifest(disk)
       IN  /\ manifest' = IF r.err = "none" THEN r.manifest ELSE manifest
           /\ hist' = [hist EXCEPT !.exit = r.err]
    /\ mainpc' = "loaded"
    /\ UNCHANGED <<now, saver, disk, cfg, cb, cache, bloom, pageCount,
                   bytesWritten, writeQueue, workers, wg, files, sigpc>>

LoadSpec == LoadInit /\ [][LoadCall]_vars

\* C28: LoadManifest returns an error and no manifest when the manifest file
\* is absent or unreadable and when its content is not a well-formed manifest
\* document, the two errors being different; it returns a manifest and no
\* error only for a well-formed file.
C28_LoadRejectsInvalidFiles ==
    mainpc = "loaded" =>
        /\ hist.saved.kind \in {"absent", "unreadable"}
              => hist.exit = "open" /\ manifest = NoManifest
        /\ hist.saved.kind \in {"partial", "hollow", "trailing"}
              => hist.exit = "decode" /\ manifest = NoManifest
        /\ hist.exit = "none" => hist.saved.kind = "full"

\* C29: when a Save of the manifest fails, the save is attempted again at the
\* next natural save point (page addition, completion or shutdown): a crawl
\* that ran to its end and whose Save at completion failed has made at least
\* one more Save call by the time the process has shut down.
C29_FailedSaveIsRetried ==
    (hist.exit = "normal" /\ hist.failedSaves > 0) => hist.saves >= 2

\* C30: a content hash that was never recorded in the fingerprint cache
\* during the session is reported as not seen by the duplicate check, and the
\* page that carries it is never classified as a duplicate.
C30_UnrecordedHashIsNovel ==
    \A u \in URLs :
        (cb[u].seen # "none" /\ ~cb[u].prior) =>
            /\ cb[u].seen = "miss"
            /\ cb[u].pc \notin {"dupread", "dupwrite"}
            /\ cb[u].outcome # "duplicate"
            /\ u \in DOMAIN manifest.Pages
                  => manifest.Pages[u].ErrorMessage.kind # "duplicate of"

\* A page with substantial content and a hash never recorded has just been
\* looked up in a cache that holds other hashes, and was not found.
C30_Witness ==
    \E u \in URLs :
        /\ cb[u].pc = "set"
        /\ cb[u].seen = "miss"
        /\ cb[u].resp.len >= 500
        /\ ContentHash(u, cb[u].resp) \notin hist.recorded
        /\ DOMAIN cache # {}

(***************************************************************************)
(* The content cleaner (clean.go).  A text is a sequence of tokens: single *)
(* characters, and whole words for the texts the patterns name.            *)
(***************************************************************************)
MaxTextLen == 4

Letters == {"a", "font-face", "woff"}      \* [a-zA-Z-]+ matches runs of these
Spaces == {" ", "\n"}                      \* \s
TextChars ==
    Letters \cup Spaces
    \cup {".", ":", ";", "@", "{", "}", "url(x)", "format(x)", "/*x*/"}

RECURSIVE TextsOfLen(_)
TextsOfLen(n) ==
    IF n = 0 THEN {<<>>}
    ELSE {Append(t, c) : t \in TextsOfLen(n - 1), c \in TextChars}

\* The texts of at most max tokens.
TextsUpTo(max) == UNION {TextsOfLen(n) : n \in 0..max}

\* A pattern is a sequence of items: a character class, taken once ("one"),
\* zero or more times ("star") or one or more times ("plus"), greedily.
One(cls) == [cls |-> cls, rep |-> "one"]
Star(cls) == [cls |-> cls, rep |-> "star"]
Plus(cls) == [cls |-> cls, rep |-> "plus"]

fontFaceRe ==
    <<One({"@"}), One({"font-face"}), Star(Spaces), One({"{"}),
      Star(TextChars \ {"}"}), One({"}"})>>
cssRuleRe ==
    <<One({"@"}), Plus(Letters), Star(TextChars \ {"{"}), One({"{"}),
      Star(TextChars \ {"}"}), One({"}"})>>
cssPropertyRe ==
    <<Plus(Letters), Star(Spaces), One({":"}), Star(Spaces),
      Plus(TextChars \ {";"}), One({";"})>>
urlRe == <<One({"url(x)"})>>
formatRe == <<One({"format(x)"})>>
cssCommentRe == <<One({"/*x*/"})>>
wsRe == <<Plus(Spaces)>>

\* The number of consecutive characters of cls in t from position i.
RECURSIVE Run(_, _, _)
Run(t, i, cls) ==
    IF i <= Len(t) /\ t[i] \in cls THEN 1 + Run(t, i + 1, cls) ELSE 0

\* regexp: the position after the match of items k.. of p at position i of t
\* that the leftmost-first rule prefers (longest repetition first), 0 when
\* there is none.
RECURSIVE MatchEnd(_, _, _, _), MatchRep(_, _, _, _, _)
MatchEnd(t, i, p, k) ==
    IF k > Len(p) THEN i
    ELSE IF p[k].rep = "one"
         THEN IF i <= Len(t) /\ t[i] \in p[k].cls
              THEN MatchEnd(t, i + 1, p, k + 1) ELSE 0
         ELSE MatchRep(t, i, p, k, Run(t, i, p[k].cls))

MatchRep(t, i, p, k, n) ==
    IF n < (IF p[k].rep = "plus" THEN 1 ELSE 0) THEN 0
    ELSE LET r == MatchEnd(t, i + n, p, k + 1)
         IN  IF r # 0 THEN r ELSE MatchRep(t, i, p, k, n - 1)

\* Regexp.ReplaceAllString: the non-overlapping matches, left to right.
RECURSIVE ReplaceFrom(_, _, _, _)
ReplaceFrom(t, i, p, repl) ==
    IF i > Len(t) THEN <<>>
    ELSE LET e == MatchEnd(t, i, p, 1)
         IN  IF e # 0 THEN repl \o ReplaceFrom(t, e, p, repl)
             ELSE <<t[i]>> \o ReplaceFrom(t, i + 1, p, repl)

ReplaceAllString(t, p, repl) == ReplaceFrom(t, 1, p, repl)

\* strings.TrimSpace
RECURSIVE TrimLeft(_), TrimRight(_)
TrimLeft(t) == IF t # <<>> /\ Head(t) \in Spaces THEN TrimLeft(Tail(t)) ELSE t
TrimRight(t) ==
    IF t # <<>> /\ t[Len(t)] \in Spaces
    THEN TrimRight(SubSeq(t, 1, Len(t) - 1)) ELSE t
TrimSpace(t) == TrimRight(TrimLeft(t))

\* strings.ReplaceAll(text, artifact, "") for each artifact: "woff" is the
\* only one a text over TextChars can still hold here (the comments are gone).
RemoveArtifacts(t) == SelectSeq(t, LAMBDA c : c # "woff")

\* strings.Split(text, ". "): the pieces between the occurrences of ". ".
RECURSIVE SplitFrom(_, _, _)
SplitFrom(t, i, piece) ==
    IF i > Len(t) THEN <<piece>>
    ELSE IF i < Len(t) /\ t[i] = "." /\ t[i + 1] = " "
         THEN <<piece>> \o SplitFrom(t, i + 2, <<>>)
         ELSE SplitFrom(t, i + 1, Append(piece, t[i]))

SplitSentences(t) == SplitFrom(t, 1, <<>>)

\* The sentences kept: trimmed, not empty, without a brace.
KeptSentences(t) ==
    LET trimmed == [i \in 1..Len(SplitSentences(t)) |-> TrimSpace(SplitSentences(t)[i])]
    IN  SelectSeq(trimmed,
                  LAMBDA s : s # <<>> /\ \A i \in 1..Len(s) : s[i] \notin {"{", "}"})

\* strings.Join(sentences, ". ") + "."
RECURSIVE JoinSentences(_)
JoinSentences(ss) ==
    IF ss = <<>> THEN <<".">>
    ELSE IF Len(ss) = 1 THEN Head(ss) \o <<".">>
    ELSE Head(ss) \o <<".", " ">> \o JoinSentences(Tail(ss))

\* Paragraphs of three sentences, joined by an empty line.
RECURSIVE JoinParagraphs(_)
JoinParagraphs(ss) ==
    IF ss = <<>> THEN <<>>
    ELSE IF Len(ss) <= 3 THEN JoinSentences(ss)
    ELSE JoinSentences(SubSeq(ss, 1, 3)) \o <<"\n", "\n">>
            \o JoinParagraphs(SubSeq(ss, 4, Len(ss)))

\* The patterns removed, in the order of the code.
RemoveCSS(t) ==
    ReplaceAllString(
      ReplaceAllString(
        ReplaceAllString(
          ReplaceAllString(
            ReplaceAllString(
              ReplaceAllString(t, fontFaceRe, <<>>),
              cssRuleRe, <<>>),
            cssPropertyRe, <<>>),
          urlRe, <<>>),
        formatRe, <<>>),
      cssCommentRe, <<>>)

\* html.UnescapeString changes nothing: no text over TextChars holds an entity.
\* No sentence over TextChars holds "src:" or "font-family" or exceeds 500 characters.
cleanHTMLOptimized(t) ==
    JoinParagraphs(KeptSentences(
        RemoveArtifacts(TrimSpace(ReplaceAllString(RemoveCSS(t), wsRe, <<" ">>)))))

cleanHTMLSimple(t) == cleanHTMLOptimized(t)


(***************************************************************************)
(* CleanSpec: cleanHTMLSimple called once on any text of at most           *)
(* MaxTextLen tokens.                                                      *)
(***************************************************************************)
CleanInit ==
    /\ now = 1
    /\ manifest = NoManifest
    /\ saver = NoLock
    /\ disk = [canonical |-> Absent, tmp |-> Absent]
    /\ \E t \in TextsUpTo(MaxTextLen) : hist = [NoHistory EXCEPT !.text = t]
    /\ cfg = [maxPages |-> 0, parallelism |-> 0, rateLimit |-> 0]
    /\ cb = [u \in {} |-> 0]
    /\ cache = [h \in {} |-> 0]
    /\ bloom = {}
    /\ pageCount = 0
    /\ bytesWritten = 0
    /\ writeQueue = [tasks |-> <<>>, closed |-> FALSE]
    /\ workers = [w \in {} |-> 0]
    /\ wg = 0
    /\ files = [f \in {} |-> 0]
    /\ mainpc = "clean"
    /\ sigpc = "none"

\* result := cleanHTMLSimple(text)
CleanCall ==
    /\ mainpc = "clean"
    /\ hist' = [hist EXCEPT !.cleaned = cleanHTMLSimple(hist.text)]
    /\ mainpc' = "cleaned"
    /\ UNCHANGED <<manifest, now, saver, disk, cfg, cb, cache, bloom, pageCount,
                   bytesWritten, writeQueue, workers, wg, files, sigpc>>

CleanSpec == CleanInit /\ [][CleanCall]_vars

\* The text with the at-rule blocks, the declarations and the url and format
\* calls removed, every run of whitespace made one space, and trimmed.
Prose(t) ==
    TrimSpace(ReplaceAllString(
      ReplaceAllString(
        ReplaceAllString(
          ReplaceAllString(
            ReplaceAllString(
              ReplaceAllString(t, fontFaceRe, <<>>),
              cssRuleRe, <<>>),
            cssPropertyRe, <<>>),
          urlRe, <<>>),
        formatRe, <<>>),
      wsRe, <<" ">>))

Contains(s, sub) ==
    \E i \in 0..(Len(s) - Len(sub)) : SubSeq(s, i + 1, i + Len(sub)) = sub

\* C31: for every input text, the output of cleanHTMLSimple contains the
\* input's prose: the input with the at-rule blocks, the CSS declarations and
\* the url and format calls removed and every run of whitespace replaced by
\* a single space.
C31_CleanKeepsProse ==
    mainpc = "cleaned" => Contains(hist.cleaned, Prose(hist.text))

(***************************************************************************)
(* LockSpec: AddPage statement by statement, called by another goroutine   *)
(* while Save runs step by step: what the manifest mutex lets interleave.  *)
(***************************************************************************)
\* The manifest without the figures UpdateStatistics derives.
Core(m) ==
    [m EXCEPT !.Statistics.AveragePageSize = 0,
              !.Statistics.CrawlDuration = 0,
              !.Statistics.PagesPerSecond = ZeroFloat,
              !.Statistics.BytesPerSecond = ZeroFloat]

LockInit ==
    /\ now = 1
    /\ \E mp \in 0..MaxPagesBound :
          manifest = NewManifest(BaseURL,
                        CrawlConfig(mp, defaultParallelism, defaultRateLimit), 1)
    /\ saver = NoLock
    /\ disk = [canonical |-> Absent, tmp |-> Absent]
    /\ cfg = [maxPages |-> 0, parallelism |-> 0, rateLimit |-> 0]
    /\ cb = [u \in {} |-> 0]
    /\ cache = [h \in {} |-> 0]
    /\ bloom = {}
    /\ pageCount = 0
    /\ bytesWritten = 0
    /\ writeQueue = [tasks |-> <<>>, closed |-> FALSE]
    /\ workers = [w \in {1} |-> [pc |-> "idle", task |-> NoTask]]
    /\ wg = 0
    /\ files = [f \in {} |-> 0]
    /\ mainpc = "none"
    /\ sigpc = "none"
    /\ hist = [NoHistory EXCEPT !.whole = {Core(manifest)}]

\* AddPage: m.mutex.Lock(); m.Pages[info.URL] = info; m.Statistics.TotalPages++
AddPageBegin(w) ==
    /\ workers[w].pc = "idle"
    /\ Unlocked
    /\ manifest.Statistics.TotalPages < MaxAdds
    /\ \E info \in StoreInputs :
          /\ manifest' = AddPageRecord(manifest, info)
          /\ workers' = [workers EXCEPT ![w] =
                            [pc |-> "recorded",
                             task |-> [NoTask EXCEPT !.pageInfo = info]]]
    /\ saver' = IF saver.holder = "none"
                THEN [holder |-> "add", pc |-> "locked", written |-> Absent]
                ELSE saver
    /\ UNCHANGED <<now, disk, cfg, cb, cache, bloom, pageCount, bytesWritten,
                   writeQueue, wg, files, mainpc, sigpc, hist>>

\* AddPage: the counters of the record's status; the deferred m.mutex.Unlock().
AddPageEnd(w) ==
    LET info == workers[w].task.pageInfo
    IN  /\ workers[w].pc = "recorded"
        /\ manifest' = IF info.Status = "completed" THEN AddPageCompleted(manifest, info)
                       ELSE IF info.Status = "failed" THEN AddPageFailed(manifest, info)
                       ELSE IF info.Status = "skipped" THEN AddPageSkipped(manifest, info)
                       ELSE manifest
        /\ workers' = [workers EXCEPT ![w] = [pc |-> "idle", task |-> NoTask]]
        /\ saver' = IF saver.holder = "add" THEN NoLock ELSE saver
        /\ hist' = [hist EXCEPT !.whole = @ \cup {Core(manifest')}]
        /\ UNCHANGED <<now, disk, cfg, cb, cache, bloom, pageCount, bytesWritten,
                       writeQueue, wg, files, mainpc, sigpc>>

LockNext ==
    \/ \E w \in DOMAIN workers : AddPageBegin(w)
    \/ \E w \in DOMAIN workers : AddPageEnd(w)
    \/ StoreSave

LockSpec == LockInit /\ [][LockNext]_vars

\* The manifests Save has serialized: in the file it is writing and in the
\* manifest file.
Snapshots ==
    (IF saver.written.kind = "full" THEN {saver.written.mem} ELSE {})
    \cup (IF disk.canonical.kind = "full" THEN {disk.canonical.mem} ELSE {})

\* C32: no Save serializes a state in which an AddPage is half applied: every
\* persisted snapshot equals the manifest state between two complete AddPage
\* operations, under every interleaving of Save with AddPage.
C32_SnapshotsAreWhole ==
    \A m \in Snapshots :
        /\ Core(m) \in hist.whole
        /\ m.Statistics.TotalPages =
              m.Statistics.SuccessfulPages + m.Statistics.FailedPages
                + m.Statistics.SkippedPages

\* A goroutine is inside AddPage, between the TotalPages increment and the
\* status counters, holding the mutex, and an earlier Save has committed a
\* snapshot with pages.
C32_Witness ==
    /\ disk.canonical.kind = "full"
    /\ disk.canonical.mem.Statistics.TotalPages > 0
    /\ workers[1].pc = "recorded"
    /\ saver.holder = "add"

\* The write tasks a worker holds between its AddPage and its update of the
\* bytes-written counter.
TasksAtBytes ==
    {workers[w].task : w \in {x \in DOMAIN workers : workers[x].pc = "bytes"}}

MaxStatusFetched == 3

StatusResponses ==
    {[status |-> 200, len |-> minContentLength, content |-> 1],
     [status |-> 202, len |-> minContentLength - 1, content |-> 1],
     [status |-> 404, len |-> minContentLength - 1, content |-> 1]}

OnHTMLStatus(u) == OnHTMLOf(u, MaxStatusFetched, StatusResponses)

OnErrorStatus(u) == OnErrorOf(u, MaxStatusFetched, StatusResponses)

StatusNext ==
    \/ \E u \in URLs : OnHTMLStatus(u)
    \/ \E u \in URLs : OnErrorStatus(u)
    \/ \E u \in URLs : CacheGetNovel(u)
    \/ \E u \in URLs : CacheSet(u)
    \/ \E u \in URLs : Submit(u)
    \/ \E w \in DOMAIN workers : WorkerStart(w)
    \/ \E w \in DOMAIN workers : WorkerReceive(w)
    \/ \E w \in DOMAIN workers : WorkerWrite(w)
    \/ \E w \in DOMAIN workers : WorkerWriteFails(w)
    \/ \E w \in DOMAIN workers : WorkerAddPage(w)
    \/ \E w \in DOMAIN workers : WorkerCountBytes(w)

StatusSpec == QueueInit /\ [][StatusNext]_vars

\* The pages with a status other than 200 that a callback has reported.
ReportedNot200 ==
    {u \in URLs : cb[u].resp.status \notin {0, 200}
                    /\ cb[u].outcome \in {"status", "error"}}

\* C34: a response whose status code is not 200 never produces a write task:
\* it is recorded once, with Status failed when the code is 400 or above and
\* skipped otherwise, with the status code in ErrorMessage and ResponseCode.
C34_Not200IsRecordedNotWritten ==
    /\ \A u \in ReportedNot200 :
          /\ u \notin hist.submitted
          /\ u \in DOMAIN manifest.Pages
          /\ manifest.Pages[u].Status =
                IF cb[u].resp.status >= 400 THEN "failed" ELSE "skipped"
          /\ manifest.Pages[u].ResponseCode = cb[u].resp.status
          /\ manifest.Pages[u].ErrorMessage.kind = "status"
          /\ manifest.Pages[u].ErrorMessage.code = cb[u].resp.status
    /\ manifest.Statistics.TotalPages = Cardinality(DOMAIN manifest.Pages)

RECURSIVE SumOfProcessingTime(_, _)
\* The sum of ProcessingTime over the PageRecords of the URLs in S.
SumOfProcessingTime(pages, S) ==
    IF S = {} THEN 0
    ELSE LET u == CHOOSE x \in S : TRUE
         IN  pages[u].ProcessingTime + SumOfProcessingTime(pages, S \ {u})

\* C35: after any sequence of AddPage calls (for pairwise different URLs, so
\* that Pages holds every record added), ProcessingTimes.Min is the smallest
\* and ProcessingTimes.Max the largest ProcessingTime among the records added
\* with Status completed, also when some of them are 0 ms, and
\* ProcessingTimes.Total is their sum.
C35_ProcessingTimesMinMaxTotal ==
    LET done == WithStatus(manifest, "completed")
        times == {manifest.Pages[u].ProcessingTime : u \in done}
        pt == manifest.Statistics.ProcessingTimes
    IN  (manifest.Statistics.TotalPages = Cardinality(DOMAIN manifest.Pages)
            /\ done # {})
        => /\ pt.Min \in times /\ \A t \in times : pt.Min <= t
           /\ pt.Max \in times /\ \A t \in times : pt.Max >= t
           /\ pt.Total = SumOfProcessingTime(manifest.Pages, done)

(***************************************************************************)
(* LiveSpec: a whole crawl of at most MaxQueueFetched valid pages, from    *)
(* the first page to the return of Start, no signal arriving.  Every       *)
(* goroutine that can take a step eventually takes one; how many pages the *)
(* engine fetches is up to the engine.                                     *)
(***************************************************************************)
PipelineSteps ==
    \/ \E u \in URLs : CacheGetNovel(u)
    \/ \E u \in URLs : CacheSet(u)
    \/ \E u \in URLs : Submit(u)
    \/ \E w \in DOMAIN workers : WorkerStart(w)
    \/ \E w \in DOMAIN workers : WorkerReceive(w)
    \/ \E w \in DOMAIN workers : WorkerExit(w)
    \/ \E w \in DOMAIN workers : WorkerWrite(w)
    \/ \E w \in DOMAIN workers : WorkerWriteFails(w)
    \/ \E w \in DOMAIN workers : WorkerAddPage(w)
    \/ \E w \in DOMAIN workers : WorkerCountBytes(w)
    \/ CollectorWait
    \/ CloseQueue
    \/ WaitGroupWait
    \/ StartComplete
    \/ StartSave

LiveNext ==
    \/ \E u \in URLs : OnHTMLQueue(u)
    \/ PipelineSteps

LiveSpec == QueueInit /\ [][LiveNext]_vars /\ WF_vars(PipelineSteps)

\* C36: for every parallelism of at least 1 and every finite set of pages the
\* crawl terminates: every producer at its submit is eventually released,
\* every submitted task is eventually taken and processed by a worker, and
\* Start eventually returns.
C36_CrawlTerminates ==
    /\ \A u \in URLs : [](cb[u].pc = "submit" => <>(cb[u].pc = "done"))
    /\ \A u \in URLs :
          [](u \in hist.submitted => <>(u \in hist.processed \cup hist.failed))
    /\ <>(mainpc = "exited")

\* C37: after shutdown, every PageRecord skipped as "duplicate of U" refers to
\* a URL U that has a PageRecord with Status completed and the same
\* ContentHash in the manifest.
C37_DuplicatesReferToRecordedOriginals ==
    hist.exit = "normal" =>
        \A u \in DOMAIN manifest.Pages :
            manifest.Pages[u].ErrorMessage.kind = "duplicate of" =>
                LET orig == manifest.Pages[u].ErrorMessage.url
                IN  /\ orig \in DOMAIN manifest.Pages
                    /\ manifest.Pages[orig].Status = "completed"
                    /\ manifest.Pages[orig].ContentHash = manifest.Pages[u].ContentHash

(***************************************************************************)
(* The link callback.  The engine runs the OnHTML("a[href]") callback for  *)
(* every link of a page after the OnHTML("html") callback of that page has *)
(* returned.  hist.links keeps, for every link the callback has seen,      *)
(* whether the page limit was reached, whether the target had been         *)
(* processed, and whether the link was handed to Visit.                    *)
(***************************************************************************)
MaxLinkFetched == 2
MaxLinks == 2

\* isValidURL: the host of the link is the crawled domain.  Every URL of the
\* model is a (path, query) pair on that host; NoURL stands for a link that
\* leads elsewhere.
isValidURL(absoluteURL) == absoluteURL \in URLs

\* OnHTML("a[href]") for the link to v found on page u.
OnLink(u, v) ==
    /\ Running /\ mainpc = "crawl"
    /\ cb[u].pc = "done"
    /\ Cardinality(hist.links) < MaxLinks
    /\ LET limit == cfg.maxPages > 0 /\ pageCount >= cfg.maxPages
       IN  \E test \in BloomTest(v) :
              hist' = [hist EXCEPT !.links = @ \cup
                          {[to |-> v,
                            limit |-> limit,
                            processed |-> \/ v \in DOMAIN manifest.Pages
                                          \/ v \in URLs /\ cb[v].pc # "idle",
                            handed |-> ~limit /\ isValidURL(v) /\ ~test]}]
    /\ UNCHANGED <<manifest, now, saver, disk, cfg, cb, cache, bloom, pageCount,
                   bytesWritten, writeQueue, workers, wg, files, mainpc, sigpc>>

OnHTMLLink(u) == OnHTMLOf(u, MaxLinkFetched, QueueResponses)

LinkNext ==
    \/ \E u \in URLs : OnHTMLLink(u)
    \/ \E u \in URLs, v \in URLs \cup {NoURL} : OnLink(u, v)
    \/ \E u \in URLs : CacheGetNovel(u)
    \/ \E u \in URLs : CacheSet(u)
    \/ \E u \in URLs : Submit(u)
    \/ \E w \in DOMAIN workers : WorkerStart(w)
    \/ \E w \in DOMAIN workers : WorkerReceive(w)
    \/ \E w \in DOMAIN workers : WorkerWrite(w)
    \/ \E w \in DOMAIN workers : WorkerWriteFails(w)
    \/ \E w \in DOMAIN workers : WorkerAddPage(w)
    \/ \E w \in DOMAIN workers : WorkerCountBytes(w)

LinkSpec == CrawlInit /\ [][LinkNext]_vars

\* C38: while the page limit is not reached, every in-domain link found on a
\* page whose target has not been processed yet is handed to the engine's
\* visit operation: a false positive of the URL bloom filter never drops an
\* unprocessed URL.
C38_UnprocessedLinksAreVisited ==
    \A l \in hist.links :
        (~l.limit /\ isValidURL(l.to) /\ ~l.processed) => l.handed

(***************************************************************************)
(* SessionSpec: a session started with --max-pages 1 was interrupted by a  *)
(* signal after its one page had been written and recorded (the handler    *)
(* saves the manifest with Status running); main is started with --resume  *)
(* on its output directory and the crawl runs on.                          *)
(***************************************************************************)
MaxSessionFetched == 2

\* The manifest the interrupted run saved: max-pages 1, one completed page.
LimitedRunning ==
    LET resp == [status |-> 200, len |-> minContentLength, content |-> 1]
        m0 == NewManifest(BaseURL, CrawlConfig(1, MaxParallelism, defaultRateLimit), 0)
        m1 == AddPage(m0, PageInfo(BaseURL, "completed", ContentHash(BaseURL, resp),
                            ContentSize(resp), <<slugify(BaseURL), 0>>,
                            200, "text/html", 1, NoMsg))
    IN  UpdateStatistics(m1, 1)

\* The command lines: --resume, with or without --workers.
SessionArgs ==
    [resume : {TRUE}, maxPages : {Unset}, workers : 1..MaxParallelism,
     rateLimit : {Unset}]

SessionInit ==
    /\ now = 1
    /\ manifest = NoManifest
    /\ saver = NoLock
    /\ \E a \in SessionArgs :
          /\ disk = [canonical |-> Full(LimitedRunning), tmp |-> Absent]
          /\ files = PriorFiles(Full(LimitedRunning))
          /\ hist = [NoHistory EXCEPT !.args = a, !.saved = Full(LimitedRunning)]
    /\ cfg = [maxPages |-> 0, parallelism |-> 0, rateLimit |-> 0]
    /\ cb = [u \in URLs |-> IdleCallback]
    /\ cache = [h \in {} |-> NoURL]
    /\ bloom = {}
    /\ pageCount = 0
    /\ bytesWritten = 0
    /\ writeQueue = [tasks |-> <<>>, closed |-> FALSE]
    /\ workers = [w \in {} |-> [pc |-> "spawned", task |-> NoTask]]
    /\ wg = 0
    /\ mainpc = "main"
    /\ sigpc = "none"

OnHTMLSession(u) == OnHTMLOf(u, MaxSessionFetched, QueueResponses)

SessionNext ==
    \/ Main
    \/ \E u \in URLs : OnHTMLSession(u)
    \/ \E u \in URLs : CacheGetNovel(u)
    \/ \E u \in URLs : CacheSet(u)
    \/ \E u \in URLs : Submit(u)
    \/ \E w \in DOMAIN workers : WorkerStart(w)
    \/ \E w \in DOMAIN workers : WorkerReceive(w)
    \/ \E w \in DOMAIN workers : WorkerWrite(w)
    \/ \E w \in DOMAIN workers : WorkerWriteFails(w)
    \/ \E w \in DOMAIN workers : WorkerAddPage(w)
    \/ \E w \in DOMAIN workers : WorkerCountBytes(w)

SessionSpec == SessionInit /\ [][SessionNext]_vars

\* The pages of a manifest with Status completed.
CompletedPages(m) == {u \in DOMAIN m.Pages : m.Pages[u].Status = "completed"}

C40_ProgressWithinBounds ==
    LET p == GetProgress(manifest)
    IN  /\ p.percentage.den > 0
        /\ 0 <= p.percentage.num
        /\ p.percentage.num <= 100 * p.percentage.den
        /\ p.total >= p.completed
        /\ p.total = 0 => p.percentage = ZeroFloat

=============================================================================
